---- MODULE Spec2Model ----
(***************************************************************************)
(* Model of the Directus API client (lib/directus/client.js, client.ts)    *)
(* and the products helper (lib/directus/products.js, products.ts).        *)
(*                                                                         *)
(* One request at a time is followed through its suspension points: the    *)
(* call, the token resolution, the transport call and the body read.       *)
(* JavaScript values are tagged records [k |-> kind, v |-> content], so    *)
(* that truthiness, optional chaining, `in` and `||` are computed as the   *)
(* language computes them.                                                 *)
(***************************************************************************)
EXTENDS Integers, Sequences, FiniteSets, TLC

(***************************************************************************)
(* JavaScript values                                                       *)
(***************************************************************************)
Undef == [k |-> "undefined", v |-> 0]
Null == [k |-> "null", v |-> 0]
Bool(b) == [k |-> "boolean", v |-> b]
Num(n) == [k |-> "number", v |-> n]
Str(s) == [k |-> "string", v |-> s]
Arr(s) == [k |-> "array", v |-> s]
Obj(r) == [k |-> "object", v |-> r]
EmptyObj == Obj(<<>>)

\* Text that the code inspects character by character (the base URL) is a
\* string value whose content is the sequence of its characters.
Chars(s) == [k |-> "chars", v |-> s]

\* typeof value === "string"
IsString(x) == x.k \in {"string", "chars"}

\* ToBoolean: undefined, null, false, 0 and "" are falsy, all else truthy.
Truthy(x) ==
  CASE x.k = "undefined" -> FALSE
    [] x.k = "null" -> FALSE
    [] x.k = "boolean" -> x.v
    [] x.k = "number" -> x.v # 0
    [] x.k = "string" -> x.v # ""
    [] x.k = "chars" -> Len(x.v) > 0
    [] OTHER -> TRUE

\* a || b
Or(a, b) == IF Truthy(a) THEN a ELSE b

\* value?.key : undefined for undefined/null, for a missing key and for
\* the properties that numbers, booleans, strings and arrays do not have.
Get(x, key) ==
  IF x.k = "object" /\ key \in DOMAIN x.v THEN x.v[key] ELSE Undef

\* The first character of the strings that occur in payloads.
CharAt0(s) ==
  CASE s = "" -> Undef
    [] s = "x" -> Str("x")
    [] s = "bad" -> Str("b")
    [] s = "boom" -> Str("b")
    [] OTHER -> Undef

\* value?.[0]
Index0(x) ==
  CASE x.k = "array" -> (IF Len(x.v) > 0 THEN x.v[1] ELSE Undef)
    [] x.k = "string" -> CharAt0(x.v)
    [] OTHER -> Undef

IsArray(x) == x.k = "array"

\* A plain object whose insertion order matters (a query or an options
\* object) is held as its Object.entries list of <<key, value>> pairs.
Entries(e) == [k |-> "entries", v |-> e]

isPlainObject(x) == x.k \in {"object", "entries"}

\* value === null || value === undefined
IsNullish(x) == x.k \in {"null", "undefined"}

(***************************************************************************)
(* Bounds and input domains                                                *)
(***************************************************************************)
MaxUrlLen == 2

\* The requests that can be in flight on one client at a time.
MaxInFlight == 2

UrlAlphabet == {" ", "/", "a"}

RECURSIVE SeqsUpTo(_, _)
SeqsUpTo(S, n) ==
  IF n = 0 THEN {<<>>}
  ELSE LET shorter == SeqsUpTo(S, n - 1)
       IN shorter \cup {Append(s, c) : s \in shorter, c \in S}

BaseUrlInputs ==
  {Undef, Null, Num(8055)} \cup {Chars(s) : s \in SeqsUpTo(UrlAlphabet, MaxUrlLen)}

(***************************************************************************)
(* client.js: sanitizeBaseUrl                                              *)
(***************************************************************************)
IsSpace(c) == c = " "

RECURSIVE TrimStart(_)
TrimStart(s) ==
  IF s # <<>> /\ IsSpace(Head(s)) THEN TrimStart(Tail(s)) ELSE s

RECURSIVE TrimEnd(_)
TrimEnd(s) ==
  IF s # <<>> /\ IsSpace(s[Len(s)]) THEN TrimEnd(SubSeq(s, 1, Len(s) - 1)) ELSE s

\* String.prototype.trim
Trim(s) == TrimEnd(TrimStart(s))

\* replace(/\/+$/, "")
RECURSIVE StripTrailingSlashes(_)
StripTrailingSlashes(s) ==
  IF s # <<>> /\ s[Len(s)] = "/"
  THEN StripTrailingSlashes(SubSeq(s, 1, Len(s) - 1))
  ELSE s

\* sanitizeBaseUrl without the trim: only the empty string counts as blank.
sanitizeBaseUrlNoTrim(baseUrl) ==
  IF ~IsString(baseUrl) \/ baseUrl.v = <<>>
  THEN Null
  ELSE Chars(StripTrailingSlashes(baseUrl.v))

sanitizeBaseUrl(baseUrl) ==
  IF ~IsString(baseUrl) \/ Trim(baseUrl.v) = <<>>
  THEN Null
  ELSE Chars(StripTrailingSlashes(Trim(baseUrl.v)))

(***************************************************************************)
(* Text: URLs, paths and query strings                                     *)
(*                                                                         *)
(* A text is a sequence of pieces; a piece is one reserved character or a  *)
(* run of unreserved characters (letters, digits, "_", "-", "."), so that  *)
(* percent-encoding acts piece by piece.                                   *)
(***************************************************************************)
Digit(d) ==
  CASE d = 0 -> "0" [] d = 1 -> "1" [] d = 2 -> "2" [] d = 3 -> "3"
    [] d = 4 -> "4" [] d = 5 -> "5" [] d = 6 -> "6" [] d = 7 -> "7"
    [] d = 8 -> "8" [] OTHER -> "9"

\* String(n) for an integer n.
RECURSIVE DecimalText(_)
DecimalText(n) ==
  IF n < 0 THEN <<"-">> \o DecimalText(0 - n)
  ELSE IF n < 10 THEN <<Digit(n)>>
  ELSE DecimalText(n \div 10) \o <<Digit(n % 10)>>

\* String(value), and Array.prototype.join(",") which uses it for every
\* element except null and undefined, which it joins as "".
RECURSIVE ToText(_)
RECURSIVE JoinComma(_)
ToText(x) ==
  CASE x.k = "string" -> (IF x.v = "" THEN <<>> ELSE <<x.v>>)
    [] x.k = "chars" -> x.v
    [] x.k = "number" -> DecimalText(x.v)
    [] x.k = "boolean" -> (IF x.v THEN <<"true">> ELSE <<"false">>)
    [] x.k = "null" -> <<"null">>
    [] x.k = "undefined" -> <<"undefined">>
    [] x.k = "array" -> JoinComma(x.v)
    [] OTHER -> <<"[object Object]">>

JoinComma(elements) ==
  IF elements = <<>> THEN <<>>
  ELSE LET first == IF IsNullish(Head(elements)) THEN <<>> ELSE ToText(Head(elements))
       IN IF Len(elements) = 1
          THEN first
          ELSE first \o <<",">> \o JoinComma(Tail(elements))

\* encodeURIComponent of one piece.
EncodeComponentPiece(p) ==
  CASE p = " " -> "%20"
    [] p = "/" -> "%2F"
    [] p = "?" -> "%3F"
    [] p = "&" -> "%26"
    [] p = "=" -> "%3D"
    [] p = "," -> "%2C"
    [] p = "[" -> "%5B"
    [] p = "]" -> "%5D"
    [] p = "[object Object]" -> "%5Bobject%20Object%5D"
    [] OTHER -> p

encodeURIComponent(text) == [i \in 1..Len(text) |-> EncodeComponentPiece(text[i])]

\* The application/x-www-form-urlencoded serializer of URLSearchParams:
\* as encodeURIComponent, but a space becomes "+".
FormEncodePiece(p) ==
  CASE p = " " -> "+"
    [] p = "[object Object]" -> "%5Bobject+Object%5D"
    [] OTHER -> EncodeComponentPiece(p)

FormEncode(text) == [i \in 1..Len(text) |-> FormEncodePiece(text[i])]

(***************************************************************************)
(* client.js: serializeQuery and buildUrl                                  *)
(***************************************************************************)
\* appendQueryParam: the parameters appended for (key, value), each a
\* <<name, value>> pair of texts.
RECURSIVE appendQueryParam(_, _)
RECURSIVE AppendEntries(_, _)
\* appendQueryParam without the test for an empty array.
appendQueryParamEmptyArrays(key, value) ==
  IF IsNullish(value) THEN <<>>
  ELSE IF IsArray(value) THEN << <<key, JoinComma(value.v)>> >>
  ELSE IF isPlainObject(value) THEN AppendEntries(key, value.v)
  ELSE << <<key, ToText(value)>> >>

appendQueryParam(key, value) ==
  IF IsNullish(value) THEN <<>>
  ELSE IF IsArray(value)
       THEN IF Len(value.v) = 0 THEN <<>> ELSE << <<key, JoinComma(value.v)>> >>
  ELSE IF isPlainObject(value) THEN AppendEntries(key, value.v)
  ELSE << <<key, ToText(value)>> >>

\* for (const [nestedKey, nestedValue] of Object.entries(value))
AppendEntries(key, entries) ==
  IF entries = <<>> THEN <<>>
  ELSE appendQueryParam(key \o <<"[">> \o ToText(Str(Head(entries)[1])) \o <<"]">>,
                        Head(entries)[2])
       \o AppendEntries(key, Tail(entries))

\* The list a URLSearchParams holds after serializeQuery's loop.
RECURSIVE QueryParams(_)
QueryParams(entries) ==
  IF entries = <<>> THEN <<>>
  ELSE appendQueryParam(ToText(Str(Head(entries)[1])), Head(entries)[2])
       \o QueryParams(Tail(entries))

\* URLSearchParams.prototype.toString
RECURSIVE ParamsToString(_)
ParamsToString(params) ==
  IF params = <<>> THEN <<>>
  ELSE LET one == FormEncode(Head(params)[1]) \o <<"=">> \o FormEncode(Head(params)[2])
       IN IF Len(params) = 1
          THEN one
          ELSE one \o <<"&">> \o ParamsToString(Tail(params))

\* serializeQuery(query = {}): undefined takes the default {}.
serializeQuery(query) ==
  IF query.k = "undefined" THEN <<>> ELSE ParamsToString(QueryParams(query.v))

\* The leaves given to serializeQuery on its own.
QueryLeaves ==
  { Undef, Null, Str(""), Chars(<<"x", " ", "y">>), Num(0), Bool(FALSE),
    Arr(<<>>), Arr(<<Str("id"), Null, Num(2)>>) }

QueryKeys == {"filter", "limit"}

\* The mappings of at most two entries with distinct keys and values in V,
\* in both insertion orders.
Mappings(V) ==
  {Entries(<<>>)}
  \cup {Entries(<< <<k, v>> >>) : k \in QueryKeys, v \in V}
  \cup UNION {{Entries(<< <<k1, v1>>, <<k2, v2>> >>) :
                  k2 \in QueryKeys \ {k1}, v1 \in V, v2 \in V} : k1 \in QueryKeys}

\* The query of the serializeQuery test of client.test.js.
TestQuery ==
  Entries(<< <<"limit", Num(10)>>,
             <<"filter", Entries(<< <<"status", Entries(<< <<"_eq", Str("published")>> >>)>>,
                                    <<"price", Entries(<< <<"_lte", Num(99)>> >>)>> >>)>>,
             <<"fields", Arr(<<Str("id"), Str("name")>>)>> >>)

\* The arguments of serializeQuery: mappings nested up to three levels.
QueryInputs ==
  LET level1 == Mappings(QueryLeaves)
      level2 == {Entries(<< <<k, m>> >>) : k \in QueryKeys, m \in level1}
      level3 == UNION {{ Entries(<< <<"limit", l>>,
                                    <<"filter", Entries(<< <<"filter", m>> >>)>> >>),
                         Entries(<< <<"filter", Entries(<< <<"filter", m>> >>)>>,
                                    <<"limit", l>> >>) } :
                       l \in QueryLeaves, m \in level1}
  IN {Undef, TestQuery} \cup level1 \cup level2 \cup level3

\* path.startsWith("/")
StartsWithSlash(path) == path # <<>> /\ path[1] = "/"

buildUrl(base, path, query) ==
  LET normalizedPath == IF StartsWithSlash(path) THEN path ELSE <<"/">> \o path
      queryString == serializeQuery(query)
  IN IF queryString = <<>>
     THEN base \o normalizedPath
     ELSE base \o normalizedPath \o <<"?">> \o queryString

(***************************************************************************)
(* Transport responses and bodies                                          *)
(***************************************************************************)
Statuses == {200, 204, 400, 499, 500, 503}

\* Response.ok of the Fetch standard: the status is in 200..299.
StatusOk(status) == status >= 200 /\ status <= 299

\* The value of response.headers?.get("content-type"); "none" stands for a
\* response without that header (get returns null) or without headers.
ContentTypes ==
  {"none", "text/plain", "application/json", "application/json; charset=utf-8"}

Responses ==
  {[ok |-> StatusOk(st), status |-> st, contentType |-> ct] :
     st \in Statuses, ct \in ContentTypes}

\* contentType.includes("application/json")
IncludesApplicationJson(ct) ==
  ct \in {"application/json", "application/json; charset=utf-8"}

Item1 == Obj([id |-> Num(1)])
Item2 == Obj([id |-> Num(2)])

DirectusErrorEntries ==
  { Obj([message |-> Str("Invalid query"),
         extensions |-> Obj([code |-> Str("FAILED_VALIDATION")])]),
    Obj([message |-> Str("Forbidden"), code |-> Str("FORBIDDEN")]),
    Obj([extensions |-> Obj([code |-> Str("INTERNAL")])]),
    Obj([message |-> Str("")]),
    Str("boom"),
    Null }

\* Values a JSON body can decode to.
JsonPayloads ==
  { Null, Str("x"), EmptyObj,
    Arr(<<>>), Arr(<<Item1, Item2>>), Arr(<<Item2, Item1>>),
    Obj([data |-> Null]),
    Obj([data |-> Item1]),
    Obj([data |-> Str("x")]),
    Obj([data |-> Arr(<<Item1, Item2>>)]),
    Obj([data |-> Arr(<<Item2, Item1>>), meta |-> Obj([filter_count |-> Num(2)])]),
    Obj([data |-> Arr(<<Item1>>), meta |-> Obj([filter_count |-> Num(1)])]),
    Obj([data |-> Arr(<<>>), meta |-> Null]),
    Obj([data |-> Arr(<<Item1>>), meta |-> Num(0)]),
    Obj([data |-> Arr(<<Item1>>), meta |-> Bool(FALSE)]),
    Obj([data |-> Arr(<<Item1>>), meta |-> Str("")]),
    Obj([data |-> Item1, meta |-> Num(7)]),
    Obj([errors |-> Arr(<<>>)]),
    Obj([errors |-> Str("x")]),
    Obj([errors |-> Num(0)]),
    Obj([error |-> Null]),
    Obj([error |-> Str("")]),
    Obj([error |-> Num(0)]),
    Obj([error |-> Str("bad")]),
    Obj([error |-> Obj([message |-> Str("Denied"), code |-> Str("DENIED")])]),
    Obj([errors |-> Arr(<<>>), error |-> Str("bad")]) }
  \cup {Obj([errors |-> Arr(<<e>>)]) : e \in DirectusErrorEntries}
  \cup {Obj([errors |-> Arr(<<Null>>), error |-> Str("bad")])}

\* Values response.text() can resolve to.
Texts == {Str(""), Str("hello")}

\* Values a transport, a resolver or a body read can throw or reject with.
ErrorObj(message) == Obj([message |-> Str(message)])

ThrownValues == {ErrorObj("ECONNREFUSED"), ErrorObj(""), Undef}

DecodeErrors == {ErrorObj("Unexpected token < in JSON")}

(***************************************************************************)
(* client.js: ApiError and the result envelope                             *)
(***************************************************************************)
\* The default parameters status = null, code = null, details = null take
\* the place of a property that is missing or undefined (lines 47-63).
createApiError(type, message, status, code, details, retryable) ==
  LET Default(value) == IF value.k = "undefined" THEN Null ELSE value
  IN Obj([type |-> Str(type), message |-> message, status |-> Default(status),
          code |-> Default(code), details |-> Default(details),
          retryable |-> Bool(retryable)])

createFailureResult(error) ==
  [ok |-> FALSE, data |-> Null, meta |-> Null, error |-> error]

\* `Directus API request failed with status ${status}.`
DirectusFailedMessage(status) ==
  CASE status = 200 -> Str("Directus API request failed with status 200.")
    [] status = 204 -> Str("Directus API request failed with status 204.")
    [] status = 400 -> Str("Directus API request failed with status 400.")
    [] status = 499 -> Str("Directus API request failed with status 499.")
    [] status = 500 -> Str("Directus API request failed with status 500.")
    [] status = 503 -> Str("Directus API request failed with status 503.")
    [] OTHER -> Str("Directus API request failed with status N.")

\* `HTTP request failed with status ${status}.`
HttpFailedMessage(status) ==
  CASE status = 200 -> Str("HTTP request failed with status 200.")
    [] status = 204 -> Str("HTTP request failed with status 204.")
    [] status = 400 -> Str("HTTP request failed with status 400.")
    [] status = 499 -> Str("HTTP request failed with status 499.")
    [] status = 500 -> Str("HTTP request failed with status 500.")
    [] status = 503 -> Str("HTTP request failed with status 503.")
    [] OTHER -> Str("HTTP request failed with status N.")

\* payload?.errors?.[0] || payload?.error || payload?.errors || payload
DirectusErrorOf(payload) ==
  Or(Or(Or(Index0(Get(payload, "errors")), Get(payload, "error")),
        Get(payload, "errors")),
     payload)

\* mapDirectusError reading the code from the entry's own `code` only.
mapDirectusErrorOwnCode(payload, status) ==
  LET directusError == DirectusErrorOf(payload)
  IN createApiError("api",
       Or(Get(directusError, "message"), DirectusFailedMessage(status)),
       Num(status),
       Or(Get(directusError, "code"), Null),
       directusError,
       status >= 500)

mapDirectusError(payload, status) ==
  LET directusError == DirectusErrorOf(payload)
  IN createApiError("api",
       Or(Get(directusError, "message"), DirectusFailedMessage(status)),
       Num(status),
       Or(Or(Get(Get(directusError, "extensions"), "code"),
             Get(directusError, "code")),
          Null),
       directusError,
       status >= 500)

mapHttpError(status, payload) ==
  createApiError("http", HttpFailedMessage(status), Num(status), Null,
                 Or(payload, Null), status >= 500)

\* hasDirectusError looking at `errors` only.
hasDirectusErrorErrorsOnly(payload) == Truthy(Get(payload, "errors"))

\* Boolean(payload?.errors || payload?.error)
hasDirectusError(payload) ==
  Truthy(Or(Get(payload, "errors"), Get(payload, "error")))

unwrapData(payload) ==
  IF isPlainObject(payload) /\ "data" \in DOMAIN payload.v
  THEN [data |-> Get(payload, "data"), meta |-> Or(Get(payload, "meta"), Null)]
  ELSE [data |-> payload, meta |-> Null]

\* parseResponse handing the text back without the {raw: text} wrapper.
parseResponseNoWrap(response, body) == body

\* parseResponse once the body read has resolved to `body`: the decoded
\* JSON value, or the text wrapped as {raw: text} ({} for empty text).
parseResponse(response, body) ==
  IF IncludesApplicationJson(response.contentType)
  THEN body
  ELSE IF Truthy(body) THEN Obj([raw |-> body]) ELSE EmptyObj

\* request, lines 208-223: the envelope for a response whose body decoded.
ClassifyResponse(response, payload) ==
  IF ~response.ok
  THEN createFailureResult(
         IF hasDirectusError(payload)
         THEN mapDirectusError(payload, response.status)
         ELSE mapHttpError(response.status, payload))
  ELSE LET u == unwrapData(payload)
       IN [ok |-> TRUE, data |-> u.data, meta |-> u.meta, error |-> Null]

ConfigFailure ==
  createFailureResult(
    createApiError("config", Str("Directus baseUrl is missing or invalid."),
                   Null, Null, Null, FALSE))

\* error?.message || "Network request failed."
NetworkFailure(error) ==
  createFailureResult(
    createApiError("network",
                   Or(Get(error, "message"), Str("Network request failed.")),
                   Null, Null, error, TRUE))

\* The decode failure reported through the transport's catch block.
ParseFailureAsNetwork(response, error) ==
  createFailureResult(
    createApiError("network",
                   Or(Get(error, "message"), Str("Network request failed.")),
                   Null, Null, error, TRUE))

\* request, lines 197-205: the envelope for a body read that failed.
ParseFailure(response, error) ==
  createFailureResult(
    createApiError("parse", Str("Unable to parse API response."),
                   Num(response.status), Null, error, FALSE))

(***************************************************************************)
(* Client configuration and call arguments                                 *)
(***************************************************************************)
\* A zero-argument token resolver.
Resolver == [k |-> "function", v |-> 0]

\* The `token` option: absent (default null), a static string, a resolver.
TokenSources == {Null, Str("token-123"), Str(""), Resolver}

\* What one invocation of the resolver does: it returns a value (directly
\* or through a promise), throws, or returns a promise that rejects.
ResolverOutcomes ==
  { [kind |-> "returns", value |-> Str("tok")],
    [kind |-> "returns", value |-> Null],
    [kind |-> "throws", value |-> ErrorObj("token store down")],
    [kind |-> "rejects", value |-> ErrorObj("token store down")] }

\* resolveToken: the settlements of the promise it returns.
resolveToken(tokenOrProvider) ==
  IF ~Truthy(tokenOrProvider)
  THEN {[kind |-> "returns", value |-> Null]}
  ELSE IF tokenOrProvider.k = "function"
       THEN ResolverOutcomes
       ELSE {[kind |-> "returns", value |-> tokenOrProvider]}

FormData == [k |-> "formdata", v |-> 0]
BigIntValue == [k |-> "bigint", v |-> 1]

\* Request bodies: absent, null, a plain object, a multipart payload and a
\* value JSON.stringify rejects (a BigInt).
Bodies == {Undef, Null, Obj([name |-> Str("Coffee")]), FormData, BigIntValue}

\* JSON.stringify throws a TypeError for a BigInt, also inside an object.
JsonStringifyThrows(body) ==
  \/ body.k = "bigint"
  \/ /\ body.k = "object"
     /\ \E key \in DOMAIN body.v : body.v[key].k = "bigint"

JsonStringifyError == ErrorObj("Do not know how to serialize a BigInt")

\* JSON.stringify(body): the JSON text of body, a value distinct from body.
JsonStringify(body) == [k |-> "json", v |-> body]

\* body === undefined || body === null || body instanceof FormData
PassesThrough(body) == IsNullish(body) \/ body.k = "formdata"

ProductIds ==
  {Undef, Null, Str(""), Str("p1"), Num(0), Chars(<<"a", "/", "b">>)}

NoArg == Undef

\* A call of the public surface.  impl is the client called: "js" for
\* backend/lib/directus, "ts" for frontend/swpshop/lib/directus.
\*   method, body  the caller's options.method and body argument
\*                 (options.body for request)
\*   path, query   the path argument and options.query of a client call
\*   options       the options object of a products helper call
\*   fetchOptions  options.fetchOptions (read by the ts client only)
\*   productId     the identifier given to getProductDetail
\*   reqQuery,slug req.query and req.params.slug of a boundary server route
NoCall ==
  [op |-> "none", impl |-> "js", method |-> "GET", body |-> NoArg,
   path |-> <<>>, query |-> NoArg, options |-> NoArg, fetchOptions |-> NoArg,
   productId |-> NoArg, reqQuery |-> NoArg, slug |-> NoArg]

ItemsPath == <<"/", "items", "/", "Products">>

PublishedFilter ==
  Entries(<< <<"status", Entries(<< <<"_eq", Str("published")>> >>)>> >>)

\* options.query of client calls.
ClientQueries ==
  { Undef,
    Entries(<< <<"limit", Num(1)>>, <<"filter", PublishedFilter>> >>) }

\* options.fetchOptions of calls of the ts client.
FetchOptions ==
  { Undef,
    Obj([next |-> Obj([revalidate |-> Num(60)])]),
    Obj([method |-> Str("PUT")]),
    Obj([body |-> Str("raw")]) }

\* The options objects given to listProducts and queryProducts, keys in
\* the caller's order.
ListOptions ==
  { Entries(<<>>),
    Entries(<< <<"limit", Num(1)>>, <<"filter", PublishedFilter>> >>),
    Entries(<< <<"filter", PublishedFilter>>, <<"limit", Num(1)>> >>),
    Entries(<< <<"search", Str("coffee")>>, <<"page", Num(2)>>,
               <<"limit", Num(10)>>, <<"sort", Arr(<<Str("-price"), Str("name")>>)>>,
               <<"fields", Str("id")>>, <<"filter", PublishedFilter>> >>),
    Entries(<< <<"search", Str("")>>, <<"page", Num(0)>>, <<"limit", Str("5")>>,
               <<"fields", Arr(<<Str("id"), Str("name")>>)>> >>) }

\* The options objects given to getProductDetail.
DetailOptions == {Entries(<<>>), Entries(<< <<"fields", Arr(<<Str("id"), Str("name")>>)>> >>)}

ClientCalls ==
  {[NoCall EXCEPT !.op = "request", !.method = m, !.body = b, !.path = ItemsPath] :
     m \in {"GET", "POST"}, b \in Bodies}
  \cup {[NoCall EXCEPT !.op = o, !.method = m, !.path = ItemsPath] :
          o \in {"get", "delete"}, m \in {"GET", "POST"}}
  \cup {[NoCall EXCEPT !.op = "get", !.path = pa, !.query = q] :
          pa \in {ItemsPath, <<"items">>}, q \in ClientQueries}
  \cup {[NoCall EXCEPT !.op = o, !.body = b, !.path = ItemsPath] :
          o \in {"post", "patch"}, b \in Bodies}
  \cup {[NoCall EXCEPT !.op = "graphql",
           !.body = Obj([query |-> Str("{ products { id } }"), variables |-> v,
                         operationName |-> Undef])] : v \in {Undef, BigIntValue}}

\* Calls of the verb helpers of the ts client, which has no graphql.
TsClientCalls ==
  {[NoCall EXCEPT !.op = o, !.impl = "ts", !.method = "POST", !.path = ItemsPath,
                  !.fetchOptions = f] : o \in {"get", "delete"}, f \in FetchOptions}
  \cup {[NoCall EXCEPT !.op = o, !.impl = "ts", !.path = ItemsPath,
                       !.body = Obj([name |-> Str("Coffee")]),
                       !.fetchOptions = f] : o \in {"post", "patch"}, f \in FetchOptions}

ProductsCalls ==
  {[NoCall EXCEPT !.op = o, !.options = opts] :
     o \in {"listProducts", "queryProducts"}, opts \in ListOptions}
  \cup {[NoCall EXCEPT !.op = "getProductDetail", !.productId = id, !.options = opts] :
          id \in ProductIds, opts \in DetailOptions}

\* req.query of GET /api/products as express parsed it: every value a
\* string, an array of strings or a nested object.
ReqQueries ==
  { Entries(<<>>),
    Entries(<< <<"filter", JsonStringify(Entries(<< <<"status",
                             Entries(<< <<"_eq", Str("draft")>> >>)>> >>))>> >>),
    Entries(<< <<"filter", Str("{bad")>> >>),
    Entries(<< <<"filter", PublishedFilter>>, <<"limit", Chars(<<"1", "0">>)>>,
               <<"page", Str("abc")>>, <<"search", Str("coffee")>> >>),
    Entries(<< <<"fields", Arr(<<Str("id"), Str("name")>>)>>,
               <<"sort", Str("-price")>>, <<"limit", Str("")>>,
               <<"search", Arr(<<Str("a"), Str("b")>>)>> >>) }

\* req.params.slug of GET /api/products/:slug.
Slugs == {Str("kaffee")}

\* Requests to the routes of the boundary server.
ServerCalls ==
  {[NoCall EXCEPT !.op = "apiProducts", !.reqQuery = q] : q \in ReqQueries}
  \cup {[NoCall EXCEPT !.op = "apiProductBySlug", !.slug = sl] : sl \in Slugs}

ServerOps == {"apiProducts", "apiProductBySlug"}

\* The call goes through listProducts (queryProducts is listProducts).
CallsListHelper(c) ==
  c.op \in {"listProducts", "queryProducts", "apiProducts", "apiProductBySlug"}

Calls == ClientCalls \cup TsClientCalls \cup ProductsCalls \cup ServerCalls

\* The method each entry point hands to request (lines 226-246 and
\* products.js 62, 84); request itself takes the caller's method.
MethodOf(c) ==
  CASE c.op = "request" -> c.method
    [] c.op = "get" -> "GET"
    [] c.op = "post" -> "POST"
    [] c.op = "patch" -> "PATCH"
    [] c.op = "delete" -> "DELETE"
    [] c.op = "graphql" -> "POST"
    [] OTHER -> "GET"

\* The body each entry point hands to request.
BodyOf(c) ==
  IF c.op \in {"request", "post", "patch", "graphql"} THEN c.body ELSE Undef

(***************************************************************************)
(* products.js                                                             *)
(***************************************************************************)
createValidationError(message, details) ==
  [ok |-> FALSE, data |-> Null, meta |-> Null,
   error |-> Obj([type |-> Str("validation"), message |-> message,
                  status |-> Null, code |-> Null, details |-> details,
                  retryable |-> Bool(FALSE)])]

\* options.key of an options object held as entries.
RECURSIVE Lookup(_, _)
Lookup(entries, key) ==
  IF entries = <<>> THEN Undef
  ELSE IF Head(entries)[1] = key THEN Head(entries)[2]
  ELSE Lookup(Tail(entries), key)

Option(options, key) == IF options.k = "entries" THEN Lookup(options.v, key) ELSE Undef

\* toCommaSeparated: an array becomes the string value.join(",").
toCommaSeparated(value) ==
  IF IsArray(value) THEN Chars(JoinComma(value.v)) ELSE value

\* Marks an option that buildProductsQuery leaves out of the query.
Skipped == [k |-> "skipped", v |-> 0]

\* The entries of `e` that are not marked as left out.
RECURSIVE Compact(_)
Compact(e) ==
  IF e = <<>> THEN <<>>
  ELSE IF Head(e)[2].k = "skipped" THEN Compact(Tail(e))
  ELSE <<Head(e)>> \o Compact(Tail(e))

\* buildProductsQuery handing the caller's options object on as the query.
buildProductsQueryCallerOrder(options) == options

\* buildProductsQuery: the recognised options, inserted in the order of
\* lines 28-50.
buildProductsQuery(options) ==
  LET filter == Option(options, "filter")
      fields == Option(options, "fields")
      sort == Option(options, "sort")
      limit == Option(options, "limit")
      page == Option(options, "page")
      search == Option(options, "search")
      Keep(cond, key, value) == IF cond THEN <<key, value>> ELSE <<key, Skipped>>
  IN Entries(Compact(<<
       Keep(Truthy(filter), "filter", filter),
       Keep(Truthy(fields), "fields", toCommaSeparated(fields)),
       Keep(Truthy(sort), "sort", toCommaSeparated(sort)),
       Keep(limit.k = "number", "limit", limit),
       Keep(page.k = "number", "page", page),
       Keep(Truthy(search), "search", search) >>))

\* createProductsApi(client): the default collection and its path.
Collection == <<"Products">>

collectionPath == <<"/", "items", "/">> \o encodeURIComponent(Collection)

\* getProductDetail line 82: fields ? {fields: toCommaSeparated(fields)} : undefined
DetailQuery(options) ==
  LET fields == Option(options, "fields")
  IN IF Truthy(fields)
     THEN Entries(<< <<"fields", toCommaSeparated(fields)>> >>)
     ELSE Undef

\* The identifier check written as !productId, which also refuses 0.
InvalidProductIdFalsy(productId) == ~Truthy(productId)

\* productId === undefined || productId === null || productId === ""
InvalidProductId(productId) == IsNullish(productId) \/ productId = Str("")

\* listProducts passing the data of client.get through unchanged.
ListResultNoCoercion(res) ==
  IF ~res.ok
  THEN res
  ELSE [ok |-> TRUE, data |-> res.data, meta |-> Or(res.meta, Null),
        error |-> Null]

\* listProducts after client.get has settled (lines 63-73).
ListResult(res) ==
  IF ~res.ok
  THEN res
  ELSE [ok |-> TRUE,
        data |-> IF IsArray(res.data) THEN res.data ELSE Arr(<<>>),
        meta |-> Or(res.meta, Null),
        error |-> Null]

\* What the called entry point returns once request has returned `res`.
Returned(c, res) ==
  IF CallsListHelper(c) THEN ListResult(res) ELSE res

(***************************************************************************)
(* The boundary server (lib/directus consumers: /api/products routes)      *)
(***************************************************************************)
\* a ?? b
Coalesce(a, b) == IF IsNullish(a) THEN b ELSE a

\* mapErrorToStatus that ignores the remote status of the error.
mapErrorToStatusNoRemote(error) ==
  CASE Get(error, "type") = Str("validation") -> 400
    [] Get(error, "type") = Str("not_found") -> 404
    [] Get(error, "type") = Str("config") -> 500
    [] OTHER -> 502

\* mapErrorToStatus
mapErrorToStatus(error) ==
  CASE Get(error, "type") = Str("validation") -> 400
    [] Get(error, "type") = Str("not_found") -> 404
    [] Get(error, "type") = Str("config") -> 500
    [] Get(error, "type") = Str("network") -> 502
    [] Get(error, "status").k = "number" -> Get(error, "status").v
    [] OTHER -> 502

\* The response sendError writes: res.status(status).json({error: ...}).
sendError(error) ==
  LET status == mapErrorToStatus(error)
  IN [status |-> status,
      body |-> Obj([error |->
                Obj([type |-> Or(Get(error, "type"), Str("http")),
                     message |-> Or(Get(error, "message"), Str("Request failed.")),
                     status |-> Num(status),
                     code |-> Or(Get(error, "code"), Null),
                     details |-> Or(Get(error, "details"), Null),
                     retryable |-> Bool(Truthy(Get(error, "retryable")))])])]

\* parseCsv
parseCsv(value) ==
  IF IsArray(value) THEN Chars(JoinComma(value.v))
  ELSE IF IsString(value) THEN value
  ELSE Undef

IsDigit(p) == p \in {"0", "1", "2", "3", "4", "5", "6", "7", "8", "9"}

DigitValue(p) == CHOOSE d \in 0..9 : Digit(d) = p

\* The integer a run of decimal digits denotes.
RECURSIVE DigitsValue(_)
DigitsValue(ps) ==
  IF ps = <<>> THEN 0
  ELSE 10 * DigitsValue(SubSeq(ps, 1, Len(ps) - 1)) + DigitValue(ps[Len(ps)])

\* parseNumber: Number(value) when it is finite, else undefined.  A text
\* converts after trimming: "" to 0, a run of digits to its value, any
\* other text of the model to NaN.
parseNumber(value) ==
  CASE IsNullish(value) -> Undef
    [] value.k = "number" -> value
    [] value.k = "boolean" -> Num(IF value.v THEN 1 ELSE 0)
    [] value.k \in {"string", "chars", "array"} ->
         LET t == Trim(ToText(value))
         IN IF \A i \in 1..Len(t) : IsDigit(t[i])
            THEN Num(DigitsValue(t))
            ELSE Undef
    [] OTHER -> Undef

\* parseFilter: an object is taken as it is; a string goes through
\* JSON.parse, whose failure gives null.  The JSON text of a value is
\* the text JSON.stringify makes of it; the other strings of the model
\* are no JSON unless they are a run of digits.
parseFilter(filterValue) ==
  CASE ~Truthy(filterValue) -> Undef
    [] filterValue.k \in {"object", "entries", "array"} -> filterValue
    [] filterValue.k = "json" -> filterValue.v
    [] filterValue.k = "chars" ->
         IF \A i \in 1..Len(filterValue.v) : IsDigit(filterValue.v[i])
         THEN Num(DigitsValue(filterValue.v))
         ELSE Null
    [] filterValue.k = "string" -> Null
    [] OTHER -> Undef

\* String(value)
String(value) == Chars(ToText(value))

\* normalizePrice: a number is kept; a non-blank string is converted by
\* Number (the texts of the model are runs of digits or no number).
normalizePrice(value) ==
  CASE value.k = "number" -> value
    [] IsString(value) /\ Trim(ToText(value)) # <<>> ->
         LET t == Trim(ToText(value))
         IN IF \A i \in 1..Len(t) : IsDigit(t[i]) THEN Num(DigitsValue(t)) ELSE Null
    [] OTHER -> Null

\* assetId.startsWith("http://") || assetId.startsWith("https://")
StartsWithHttp(text) ==
  /\ Len(text) >= 4
  /\ text[1] \in {"http", "https"}
  /\ SubSeq(text, 2, 4) = <<":", "/", "/">>

\* buildAssetUrl, with directusUrl the DIRECTUS_URL the server read.
buildAssetUrl(assetId, directusUrl) ==
  IF ~Truthy(assetId) THEN Null
  ELSE IF IsString(assetId) /\ StartsWithHttp(ToText(assetId)) THEN assetId
  ELSE IF ~Truthy(directusUrl) THEN Null
  ELSE Chars(StripTrailingSlashes(ToText(directusUrl)) \o <<"/", "assets", "/">>
             \o ToText(assetId))

\* extractAssetId
extractAssetId(entry) ==
  CASE ~Truthy(entry) -> Null
    [] IsString(entry) \/ entry.k = "number" -> String(entry)
    [] entry.k = "object" ->
         IF IsString(Get(entry, "id")) \/ Get(entry, "id").k = "number"
         THEN String(Get(entry, "id"))
         ELSE IF Truthy(Get(entry, "directus_files_id"))
         THEN String(Get(entry, "directus_files_id"))
         ELSE IF Truthy(Get(Get(entry, "file"), "id"))
         THEN String(Get(Get(entry, "file"), "id"))
         ELSE Null
    [] OTHER -> Null

\* The elements of `xs` that are truthy: filter(Boolean).
RECURSIVE FilterTruthy(_)
FilterTruthy(xs) ==
  IF xs = <<>> THEN <<>>
  ELSE IF Truthy(Head(xs)) THEN <<Head(xs)>> \o FilterTruthy(Tail(xs))
  ELSE FilterTruthy(Tail(xs))

\* The asset ids extractImageUrls collects from the candidates.
RECURSIVE AssetIds(_)
AssetIds(candidates) ==
  IF candidates = <<>> THEN <<>>
  ELSE LET c == Head(candidates)
           ids == IF IsArray(c)
                  THEN [i \in 1..Len(c.v) |-> extractAssetId(c.v[i])]
                  ELSE <<extractAssetId(c)>>
       IN FilterTruthy(ids) \o AssetIds(Tail(candidates))

\* extractImageUrls
extractImageUrls(item, directusUrl) ==
  LET candidates ==
        FilterTruthy(<<Get(item, "images"), Get(item, "image"), Get(item, "gallery")>>)
      ids == AssetIds(candidates)
  IN Arr(FilterTruthy([i \in 1..Len(ids) |-> buildAssetUrl(ids[i], directusUrl)]))

\* mapProduct
mapProduct(item, directusUrl) ==
  LET idValue == Coalesce(Get(item, "id"),
                   Coalesce(Get(item, "ID"),
                     Coalesce(Get(item, "slug"), Str("unknown"))))
      id == String(idValue)
      name == Or(Get(item, "name"),
                Or(Get(item, "title"),
                  Or(Get(item, "product_name"), Str("Unbenanntes Produkt"))))
      description == Or(Get(item, "description"),
                       Or(Get(item, "short_description"),
                         Or(Get(item, "summary"), Str(""))))
      availability == Coalesce(Get(item, "availability"),
                        Coalesce(Get(item, "stock_status"),
                          Coalesce(Get(item, "stock"), Null)))
  IN Obj([id |-> id,
          slug |-> IF Truthy(Get(item, "slug")) THEN String(Get(item, "slug")) ELSE id,
          name |-> String(name),
          description |-> String(description),
          price |-> normalizePrice(Coalesce(Get(item, "price"),
                                     Coalesce(Get(item, "amount"), Get(item, "cost")))),
          availability |-> IF Truthy(availability) THEN String(availability) ELSE Null,
          images |-> extractImageUrls(item, directusUrl)])

\* The options object each route hands to its products helper:
\* GET /api/products to listProducts, GET /api/products/:slug to
\* queryProducts.
RouteOptions(c) ==
  IF c.op = "apiProducts"
  THEN Entries(<<
         <<"filter", parseFilter(Option(c.reqQuery, "filter"))>>,
         <<"fields", parseCsv(Option(c.reqQuery, "fields"))>>,
         <<"sort", parseCsv(Option(c.reqQuery, "sort"))>>,
         <<"limit", parseNumber(Option(c.reqQuery, "limit"))>>,
         <<"page", parseNumber(Option(c.reqQuery, "page"))>>,
         <<"search", IF IsString(Option(c.reqQuery, "search"))
                     THEN Option(c.reqQuery, "search")
                     ELSE Undef>> >>)
  ELSE Entries(<<
         <<"filter", Entries(<< <<"slug", Entries(<< <<"_eq", c.slug>> >>)>> >>)>>,
         <<"limit", Num(1)>> >>)

\* The options the products helper of the call is given.
HelperOptions(c) == IF c.op \in ServerOps THEN RouteOptions(c) ELSE c.options

\* The path each entry point hands to request.
PathOf(c) ==
  CASE c.op = "graphql" -> <<"/", "graphql">>
    [] CallsListHelper(c) -> collectionPath
    [] c.op = "getProductDetail" ->
         collectionPath \o <<"/">> \o encodeURIComponent(ToText(c.productId))
    [] OTHER -> c.path

\* The query each entry point hands to request.
QueryOf(c) ==
  CASE CallsListHelper(c) -> buildProductsQuery(HelperOptions(c))
    [] c.op = "getProductDetail" -> DetailQuery(c.options)
    [] c.op = "graphql" -> Undef
    [] OTHER -> c.query

\* No response has been sent.
NoServed == [status |-> 0, body |-> Undef]

\* res.json(body) with the status express starts from.
SendJson(body) == [status |-> 200, body |-> body]

\* The 400 of GET /api/products for a filter that is no JSON.
FilterRejected(c) ==
  [status |-> 400,
   body |-> Obj([error |->
             Obj([type |-> Str("validation"),
                  message |-> Str("Filter must be valid JSON."),
                  status |-> Num(400), code |-> Null,
                  details |-> Obj([filter |-> Option(c.reqQuery, "filter")]),
                  retryable |-> Bool(FALSE)])])]

\* The 404 of GET /api/products/:slug.
SlugNotFound(c) ==
  [status |-> 404,
   body |-> Obj([error |->
             Obj([type |-> Str("not_found"),
                  message |-> Str("Produkt nicht gefunden."),
                  status |-> Num(404), code |-> Null,
                  details |-> Obj([slug |-> c.slug]),
                  retryable |-> Bool(FALSE)])])]

\* GET /api/products/:slug with the result check left out.
RespondNoEmptyCheck(c, res, directusUrl) ==
  CASE c.op \notin ServerOps -> NoServed
    [] ~res.ok -> sendError(res.error)
    [] c.op = "apiProducts" ->
         SendJson(Obj([data |-> Arr([i \in 1..Len(res.data.v) |->
                                       mapProduct(res.data.v[i], directusUrl)]),
                       meta |-> Or(res.meta, Null)]))
    [] OTHER ->
         SendJson(Obj([data |-> mapProduct(Index0(res.data), directusUrl)]))

\* What a route sends once its products helper has returned `res`.
Respond(c, res, directusUrl) ==
  CASE c.op \notin ServerOps -> NoServed
    [] ~res.ok -> sendError(res.error)
    [] c.op = "apiProducts" ->
         SendJson(Obj([data |-> Arr([i \in 1..Len(res.data.v) |->
                                       mapProduct(res.data.v[i], directusUrl)]),
                       meta |-> Or(res.meta, Null)]))
    [] ~Truthy(Index0(res.data)) -> SlugNotFound(c)
    [] OTHER ->
         SendJson(Obj([data |-> mapProduct(Index0(res.data), directusUrl)]))

(***************************************************************************)
(* State                                                                   *)
(***************************************************************************)
VARIABLES
  baseUrl,            \* the baseUrl option the client was constructed with
  normalizedBaseUrl,  \* the closure's normalizedBaseUrl
  token,              \* the closure's token
  pc,                 \* position of the call: idle, token, fetch, parse, done
  call,               \* the entry point called and its arguments
  tokenOutcome,       \* how resolveToken settled for this call
  dispatched,         \* the init object handed to the transport
  transport,          \* how the transport call settled
  body,               \* how the body read settled
  outcome,            \* pending, returned or rejected
  result,             \* the envelope the call returned
  fetchCalls,         \* invocations of fetchFn by this call
  resolverCalls,      \* invocations of the token resolver by this call
  jsonCalls,          \* invocations of response.json() by this call
  textCalls,          \* invocations of response.text() by this call
  served,             \* the HTTP response a boundary server route sent
  qpc,                \* serializeQuery on its own: off, idle or returned
  query,              \* the argument serializeQuery was called with
  queryString,        \* the string serializeQuery returned
  heap,               \* the headers objects: the caller's and each requestHeaders
  reqs,               \* the requests in flight on one shared client
  cms,                \* the records of the Products collection of the CMS
  listing,            \* the products the page received from GET /api/products
  routes              \* the requests the boundary server is handling

clientVars ==
  <<baseUrl, normalizedBaseUrl, token, pc, call, tokenOutcome, dispatched,
    transport, body, outcome, result, fetchCalls, resolverCalls, jsonCalls,
    textCalls, served>>

queryVars == <<qpc, query, queryString>>

concVars == <<heap, reqs>>

cmsVars == <<cms, listing, routes>>

\* The state outside a client and its one call in progress.
aux == <<queryVars, concVars, cmsVars>>

vars == <<clientVars, aux>>

config == <<baseUrl, normalizedBaseUrl, token>>

NoSettlement == [kind |-> "none", value |-> Undef]
NoResponse == [ok |-> FALSE, status |-> 0, contentType |-> "none"]
NoTransport == [kind |-> "none", response |-> NoResponse, error |-> Undef]
NoDispatch ==
  [url |-> <<>>, method |-> "none", accept |-> Undef, contentType |-> Undef,
   authorization |-> Undef, body |-> Undef, cache |-> Undef]
NoResult == [ok |-> FALSE, data |-> Undef, meta |-> Undef, error |-> Undef]

(***************************************************************************)
(* Requests in flight on one shared client                                 *)
(***************************************************************************)
Slots == 1..MaxInFlight

HeaderNames == {"Accept", "Content-Type", "Authorization", "X-Trace"}

\* A headers object is a heap cell: the caller's options.headers object
\* is cell 0, the requestHeaders object of the request in slot r is cell r.
HeaderRefs == 0..MaxInFlight

CallerRef == CHOOSE ref \in HeaderRefs : ref \notin Slots

NoHeaders == [n \in HeaderNames |-> Undef]

\* The headers object the callers pass.
CallerHeaders == [NoHeaders EXCEPT !["X-Trace"] = Str("1")]

\* A reference to a heap cell.
Ref(cell) == [k |-> "ref", v |-> cell]

\* {...base, ...source}
Spread(base, source) ==
  [n \in HeaderNames |-> IF source[n] # Undef THEN source[n] ELSE base[n]]

\* The arguments of the requests in flight: a POST with a body and a GET
\* that pass the same headers object, and a GET without headers.
ConcCalls ==
  { [method |-> "POST", path |-> ItemsPath, query |-> Undef,
     body |-> Obj([name |-> Str("Coffee")]), headers |-> Ref(CallerRef)],
    [method |-> "GET", path |-> ItemsPath, query |-> Undef,
     body |-> Undef, headers |-> Ref(CallerRef)],
    [method |-> "GET", path |-> ItemsPath,
     query |-> Entries(<< <<"limit", Num(1)>> >>),
     body |-> Undef, headers |-> Undef] }

NoConcCall ==
  [method |-> "none", path |-> <<>>, query |-> Undef, body |-> Undef,
   headers |-> Undef]

NoConcDispatch ==
  [url |-> <<>>, method |-> "none", headers |-> NoHeaders, body |-> Undef]

NoRequest ==
  [pc |-> "idle", call |-> NoConcCall, headersRef |-> CallerRef,
   tokenOutcome |-> NoSettlement, dispatched |-> NoConcDispatch,
   transport |-> NoTransport, body |-> NoSettlement, outcome |-> "pending",
   result |-> NoResult, resolverCalls |-> 0, fetchCalls |-> 0]

\* What the transport and the body read do to the requests in flight.
ConcResponses ==
  { [ok |-> TRUE, status |-> 200, contentType |-> "application/json"],
    [ok |-> FALSE, status |-> 503, contentType |-> "application/json"] }

ConcPayloads ==
  { Obj([data |-> Arr(<<Item1>>), meta |-> Obj([filter_count |-> Num(1)])]),
    Obj([errors |-> Arr(<<Obj([message |-> Str("Forbidden"),
                               code |-> Str("FORBIDDEN")])>>)]) }

\* requestHeaders being the caller's headers object itself.
RequestHeadersRefAliased(r, headers) ==
  IF headers.k = "ref" THEN headers.v ELSE r

\* const requestHeaders = {...}: a new object for each request.
RequestHeadersRef(r, headers) == r

\* resolveToken returning the value an earlier request resolved.
TokenResolutionCached(r) ==
  LET earlier == {reqs[s].tokenOutcome : s \in {x \in Slots \ {r} :
                                                  reqs[x].tokenOutcome.kind = "returns"}}
  IN IF earlier # {}
     THEN [invocations |-> 0, outcomes |-> earlier]
     ELSE [invocations |-> IF Truthy(token) /\ token.k = "function" THEN 1 ELSE 0,
           outcomes |-> resolveToken(token)]

\* await resolveToken(token) of the request in slot r: how often the
\* resolver is invoked and how the promise can settle.
TokenResolution(r) ==
  [invocations |-> IF Truthy(token) /\ token.k = "function" THEN 1 ELSE 0,
   outcomes |-> resolveToken(token)]

\* No call of serializeQuery on its own is under way.
QueryOff ==
  /\ qpc = "off"
  /\ query = Undef
  /\ queryString = <<>>

\* No request is in flight next to the one call of the client.
ConcOff ==
  /\ heap = [ref \in HeaderRefs |-> IF ref = CallerRef THEN CallerHeaders ELSE NoHeaders]
  /\ reqs = [r \in Slots |-> NoRequest]

\* No CMS contents are followed.
CmsOff ==
  /\ cms = <<>>
  /\ listing = <<>>
  /\ routes = <<>>

\* No call is in progress on the client.
ClientIdle ==
  /\ pc = "idle"
  /\ call = NoCall
  /\ tokenOutcome = NoSettlement
  /\ dispatched = NoDispatch
  /\ transport = NoTransport
  /\ body = NoSettlement
  /\ outcome = "pending"
  /\ result = NoResult
  /\ fetchCalls = 0
  /\ resolverCalls = 0
  /\ jsonCalls = 0
  /\ textCalls = 0
  /\ served = NoServed

\* createDirectusClient: the state after construction.
Init ==
  /\ baseUrl \in BaseUrlInputs
  /\ normalizedBaseUrl = sanitizeBaseUrl(baseUrl)
  /\ token \in TokenSources
  /\ ClientIdle
  /\ QueryOff
  /\ ConcOff
  /\ CmsOff

\* Call c returns `r` through the entry point that was called.
Return(c, r) ==
  /\ pc' = "done"
  /\ outcome' = "returned"
  /\ result' = Returned(c, r)
  /\ served' = Respond(c, Returned(c, r), baseUrl)

\* The promise of the call rejects.
Reject ==
  /\ pc' = "done"
  /\ outcome' = "rejected"
  /\ result' = NoResult
  /\ served' = NoServed

(***************************************************************************)
(* Actions                                                                 *)
(***************************************************************************)
\* The client of the boundary server: baseUrl is DIRECTUS_URL || "" and
\* token is DIRECTUS_TOKEN || null, both strings of the environment.
ServerConfig == IsString(baseUrl) /\ token \in {Null, Str("token-123")}

\* An entry point is called; it runs to its first suspension point:
\* getProductDetail lines 77-79, request lines 147-165.
Call(c) ==
  /\ pc = "idle"
  /\ c.op \in ServerOps => ServerConfig
  /\ call' = c
  /\ IF c.op = "getProductDetail" /\ InvalidProductId(c.productId)
     THEN /\ pc' = "done"
          /\ outcome' = "returned"
          /\ result' = createValidationError(
                         Str("A valid productId is required."),
                         Obj([productId |-> c.productId]))
          /\ UNCHANGED <<resolverCalls, served>>
     ELSE IF c.op = "apiProducts" /\ parseFilter(Option(c.reqQuery, "filter")) = Null
     THEN /\ pc' = "done"
          /\ outcome' = "uncalled"
          /\ served' = FilterRejected(c)
          /\ UNCHANGED <<resolverCalls, result>>
     ELSE IF ~Truthy(normalizedBaseUrl)
     THEN /\ Return(c, ConfigFailure)
          /\ UNCHANGED resolverCalls
     ELSE /\ pc' = "token"
          /\ resolverCalls' = IF Truthy(token) /\ token.k = "function" THEN 1 ELSE 0
          /\ UNCHANGED <<outcome, result, served>>
  /\ UNCHANGED <<config, tokenOutcome, dispatched, transport, body, fetchCalls,
                 jsonCalls, textCalls>>
  /\ UNCHANGED aux

\* The init object of lines 156-182 for a resolved token, and the URL of
\* line 170.  The ts client adds cache: "no-store" and then spreads
\* options.fetchOptions over the init (client.ts lines 233-243).
RequestInit(c, resolvedToken) ==
  LET init ==
        [url |-> buildUrl(normalizedBaseUrl.v, PathOf(c), QueryOf(c)),
         method |-> MethodOf(c),
         accept |-> Str("application/json"),
         contentType |-> IF ~PassesThrough(BodyOf(c))
                         THEN Str("application/json")
                         ELSE Undef,
         authorization |-> IF Truthy(resolvedToken)
                           THEN [k |-> "bearer", v |-> resolvedToken.v]
                           ELSE Undef,
         body |-> IF PassesThrough(BodyOf(c))
                  THEN BodyOf(c)
                  ELSE JsonStringify(BodyOf(c)),
         cache |-> IF c.impl = "ts" THEN Str("no-store") ELSE Undef]
      f == c.fetchOptions
  IN IF c.impl # "ts" \/ f.k # "object"
     THEN init
     ELSE [init EXCEPT
             !.method = IF "method" \in DOMAIN f.v THEN f.v["method"].v ELSE @,
             !.body = IF "body" \in DOMAIN f.v THEN f.v["body"] ELSE @]

\* resolveToken settles (line 165); the call runs on to the transport call
\* (lines 166-182).
TokenSettles ==
  /\ pc = "token"
  /\ \E o \in resolveToken(token) :
       /\ tokenOutcome' = o
       /\ IF o.kind # "returns"
          THEN /\ Reject
               /\ UNCHANGED <<dispatched, fetchCalls>>
          ELSE IF ~PassesThrough(BodyOf(call)) /\ JsonStringifyThrows(BodyOf(call))
          THEN /\ Return(call, NetworkFailure(JsonStringifyError))
               /\ UNCHANGED <<dispatched, fetchCalls>>
          ELSE /\ pc' = "fetch"
               /\ dispatched' = RequestInit(call, o.value)
               /\ fetchCalls' = fetchCalls + 1
               /\ UNCHANGED <<outcome, result, served>>
  /\ UNCHANGED <<config, call, transport, body, resolverCalls, jsonCalls, textCalls>>
  /\ UNCHANGED aux

\* The transport call rejects and request calls the transport a second time
\* before giving up.
TransportFailsRetries ==
  /\ pc = "fetch"
  /\ IF fetchCalls = 1
     THEN /\ fetchCalls' = fetchCalls + 1
          /\ UNCHANGED <<pc, outcome, result, transport, served>>
     ELSE /\ \E e \in ThrownValues :
               /\ transport' = [kind |-> "throws", response |-> NoResponse, error |-> e]
               /\ Return(call, NetworkFailure(e))
          /\ UNCHANGED fetchCalls
  /\ UNCHANGED <<config, call, tokenOutcome, dispatched, body,
                 resolverCalls, jsonCalls, textCalls>>
  /\ UNCHANGED aux

\* The transport call rejects (lines 183-191).
TransportFails ==
  /\ pc = "fetch"
  /\ \E e \in ThrownValues :
       /\ transport' = [kind |-> "throws", response |-> NoResponse, error |-> e]
       /\ Return(call, NetworkFailure(e))
  /\ UNCHANGED <<config, call, tokenOutcome, dispatched, body, fetchCalls,
                 resolverCalls, jsonCalls, textCalls>>
  /\ UNCHANGED aux

\* The transport call resolves to a response; parseResponse starts the body
\* read (lines 98-105).
TransportResponds ==
  /\ pc = "fetch"
  /\ \E r \in Responses :
       /\ transport' = [kind |-> "response", response |-> r, error |-> Undef]
       /\ IF IncludesApplicationJson(r.contentType)
          THEN jsonCalls' = jsonCalls + 1 /\ UNCHANGED textCalls
          ELSE textCalls' = textCalls + 1 /\ UNCHANGED jsonCalls
  /\ pc' = "parse"
  /\ UNCHANGED <<config, call, tokenOutcome, dispatched, body, outcome, result,
                 fetchCalls, resolverCalls, served>>
  /\ UNCHANGED aux

\* The values the pending body read can resolve to.
BodyValues(response) ==
  IF IncludesApplicationJson(response.contentType) THEN JsonPayloads ELSE Texts

\* The body read rejects (lines 197-205).
BodyFails ==
  /\ pc = "parse"
  /\ \E e \in DecodeErrors :
       /\ body' = [kind |-> "throws", value |-> e]
       /\ Return(call, ParseFailure(transport.response, e))
  /\ UNCHANGED <<config, call, tokenOutcome, dispatched, transport, fetchCalls,
                 resolverCalls, jsonCalls, textCalls>>
  /\ UNCHANGED aux

\* The body read resolves; the response is classified (lines 196, 208-223).
BodyDecodes ==
  /\ pc = "parse"
  /\ \E b \in BodyValues(transport.response) :
       /\ body' = [kind |-> "value", value |-> b]
       /\ Return(call, ClassifyResponse(transport.response,
                                        parseResponse(transport.response, b)))
  /\ UNCHANGED <<config, call, tokenOutcome, dispatched, transport, fetchCalls,
                 resolverCalls, jsonCalls, textCalls>>
  /\ UNCHANGED aux

\* The caller has its answer; the client is ready for the next call.
NextCall ==
  /\ pc = "done"
  /\ pc' = "idle"
  /\ call' = NoCall
  /\ tokenOutcome' = NoSettlement
  /\ dispatched' = NoDispatch
  /\ transport' = NoTransport
  /\ body' = NoSettlement
  /\ outcome' = "pending"
  /\ result' = NoResult
  /\ fetchCalls' = 0
  /\ resolverCalls' = 0
  /\ jsonCalls' = 0
  /\ textCalls' = 0
  /\ served' = NoServed
  /\ UNCHANGED config
  /\ UNCHANGED aux

Next ==
  \/ \E c \in Calls : Call(c)
  \/ TokenSettles
  \/ TransportFails
  \/ TransportResponds
  \/ BodyFails
  \/ BodyDecodes
  \/ NextCall

Spec == Init /\ [][Next]_vars

(***************************************************************************)
(* serializeQuery called on its own                                        *)
(***************************************************************************)
InitQuery ==
  /\ baseUrl = Null
  /\ normalizedBaseUrl = sanitizeBaseUrl(baseUrl)
  /\ token = Null
  /\ ClientIdle
  /\ ConcOff
  /\ CmsOff
  /\ qpc = "idle"
  /\ query = Undef
  /\ queryString = <<>>

\* serializeQuery is called with an argument and returns.
SerializeQuery ==
  /\ qpc = "idle"
  /\ \E q \in QueryInputs :
       /\ query' = q
       /\ queryString' = serializeQuery(q)
  /\ qpc' = "returned"
  /\ UNCHANGED <<clientVars, concVars, cmsVars>>

\* The caller has the string.
NextQuery ==
  /\ qpc = "returned"
  /\ qpc' = "idle"
  /\ query' = Undef
  /\ queryString' = <<>>
  /\ UNCHANGED <<clientVars, concVars, cmsVars>>

NextQ == SerializeQuery \/ NextQuery

SpecQuery == InitQuery /\ [][NextQ]_vars

(***************************************************************************)
(* request called again while earlier calls are suspended                  *)
(***************************************************************************)
InitConc ==
  /\ baseUrl \in {Null, Chars(<<"a", "/">>)}
  /\ normalizedBaseUrl = sanitizeBaseUrl(baseUrl)
  /\ token \in {Str("token-123"), Resolver}
  /\ ClientIdle
  /\ QueryOff
  /\ ConcOff
  /\ CmsOff

\* request is called in slot r and runs to its first suspension point
\* (lines 147-165).
ConcRequest(r, c) ==
  /\ reqs[r].pc = "idle"
  /\ IF ~Truthy(normalizedBaseUrl)
     THEN /\ reqs' = [reqs EXCEPT ![r] =
                        [@ EXCEPT !.pc = "done", !.call = c, !.outcome = "returned",
                                  !.result = ConfigFailure]]
          /\ UNCHANGED heap
     ELSE LET ref == RequestHeadersRef(r, c.headers)
              source == IF c.headers.k = "ref" THEN heap[c.headers.v] ELSE NoHeaders
              initial == Spread([NoHeaders EXCEPT !["Accept"] = Str("application/json")],
                                source)
              requestHeaders ==
                IF ~PassesThrough(c.body)
                THEN [initial EXCEPT !["Content-Type"] = Str("application/json")]
                ELSE initial
          IN /\ heap' = [heap EXCEPT ![ref] = requestHeaders]
             /\ reqs' = [reqs EXCEPT ![r] =
                           [@ EXCEPT !.pc = "token", !.call = c, !.headersRef = ref,
                                     !.resolverCalls = TokenResolution(r).invocations]]
  /\ UNCHANGED <<clientVars, queryVars, cmsVars>>

\* resolveToken settles for slot r; the request runs on to its transport
\* call (lines 165-182).
ConcTokenSettles(r) ==
  /\ reqs[r].pc = "token"
  /\ \E o \in TokenResolution(r).outcomes :
       IF o.kind # "returns"
       THEN /\ reqs' = [reqs EXCEPT ![r] =
                          [@ EXCEPT !.pc = "done", !.tokenOutcome = o,
                                    !.outcome = "rejected"]]
            /\ UNCHANGED heap
       ELSE LET ref == reqs[r].headersRef
                requestHeaders ==
                  IF Truthy(o.value)
                  THEN [heap[ref] EXCEPT
                          !["Authorization"] = [k |-> "bearer", v |-> o.value.v]]
                  ELSE heap[ref]
                c == reqs[r].call
            IN /\ heap' = [heap EXCEPT ![ref] = requestHeaders]
               /\ reqs' = [reqs EXCEPT ![r] =
                             [@ EXCEPT !.pc = "fetch", !.tokenOutcome = o,
                                       !.fetchCalls = @ + 1,
                                       !.dispatched =
                                         [url |-> buildUrl(normalizedBaseUrl.v, c.path, c.query),
                                          method |-> c.method,
                                          headers |-> requestHeaders,
                                          body |-> IF PassesThrough(c.body)
                                                   THEN c.body
                                                   ELSE JsonStringify(c.body)]]]
  /\ UNCHANGED <<clientVars, queryVars, cmsVars>>

\* The transport call of slot r rejects (lines 183-191).
ConcTransportFails(r) ==
  /\ reqs[r].pc = "fetch"
  /\ LET e == ErrorObj("ECONNREFUSED")
     IN reqs' = [reqs EXCEPT ![r] =
                   [@ EXCEPT !.pc = "done", !.outcome = "returned",
                             !.transport = [kind |-> "throws", response |-> NoResponse,
                                            error |-> e],
                             !.result = NetworkFailure(e)]]
  /\ UNCHANGED <<clientVars, queryVars, cmsVars, heap>>

\* The transport call of slot r resolves; the body read starts.
ConcTransportResponds(r) ==
  /\ reqs[r].pc = "fetch"
  /\ \E resp \in ConcResponses :
       reqs' = [reqs EXCEPT ![r] =
                  [@ EXCEPT !.pc = "parse",
                            !.transport = [kind |-> "response", response |-> resp,
                                           error |-> Undef]]]
  /\ UNCHANGED <<clientVars, queryVars, cmsVars, heap>>

\* The body read of slot r rejects (lines 197-205).
ConcBodyFails(r) ==
  /\ reqs[r].pc = "parse"
  /\ \E e \in DecodeErrors :
       reqs' = [reqs EXCEPT ![r] =
                  [@ EXCEPT !.pc = "done", !.outcome = "returned",
                            !.body = [kind |-> "throws", value |-> e],
                            !.result = ParseFailure(reqs[r].transport.response, e)]]
  /\ UNCHANGED <<clientVars, queryVars, cmsVars, heap>>

\* The body read of slot r resolves; the response is classified.
ConcBodyDecodes(r) ==
  /\ reqs[r].pc = "parse"
  /\ \E b \in ConcPayloads :
       reqs' = [reqs EXCEPT ![r] =
                  [@ EXCEPT !.pc = "done", !.outcome = "returned",
                            !.body = [kind |-> "value", value |-> b],
                            !.result =
                              ClassifyResponse(reqs[r].transport.response,
                                parseResponse(reqs[r].transport.response, b))]]
  /\ UNCHANGED <<clientVars, queryVars, cmsVars, heap>>

NextConc ==
  \/ \E r \in Slots, c \in ConcCalls : ConcRequest(r, c)
  \/ \E r \in Slots : ConcTokenSettles(r)
  \/ \E r \in Slots : ConcTransportFails(r)
  \/ \E r \in Slots : ConcTransportResponds(r)
  \/ \E r \in Slots : ConcBodyFails(r)
  \/ \E r \in Slots : ConcBodyDecodes(r)

SpecConc == InitConc /\ [][NextConc]_vars

\* Every suspension point of every request settles: the promise of
\* resolveToken, the promise of the transport call, the promise of the
\* body read.
Settling ==
  \A r \in Slots :
    /\ WF_vars(ConcTokenSettles(r))
    /\ WF_vars(ConcTransportFails(r) \/ ConcTransportResponds(r))
    /\ WF_vars(ConcBodyFails(r) \/ ConcBodyDecodes(r))

SpecSettling == SpecConc /\ Settling

(***************************************************************************)
(* The boundary server in front of one CMS                                 *)
(*                                                                         *)
(* The Products collection holds a list of records that does not change.  *)
(* The page asks the server for the list and follows the links of the      *)
(* listed products; every request is handled in a slot of its own, so      *)
(* that handlers suspended at an await interleave.                         *)
(***************************************************************************)
\* The contents of the Products collection: up to two distinct records,
\* with a slug, without a slug field, with an empty slug field, and with a
\* slug that reads like another record's id.
CmsContents ==
  LET records ==
        { Obj([id |-> Num(1), slug |-> Str("kaffee"), name |-> Str("Kaffee")]),
          Obj([id |-> Num(2), name |-> Str("Tee")]),
          Obj([id |-> Num(3), slug |-> Null, name |-> Str("Kakao")]),
          Obj([id |-> Num(4), slug |-> Str("2"), name |-> Str("Mate")]) }
  IN {<<>>}
     \cup {<<a>> : a \in records}
     \cup UNION {{<<a, b>> : b \in records \ {a}} : a \in records}

\* The payload the CMS answers GET /items/Products with: the records whose
\* slug equals the value of filter[slug][_eq] (all records without a
\* filter; a record without a slug equals no value), cut to `limit`.
CmsAnswer(contents, q) ==
  LET filter == Option(q, "filter")
      wanted == Option(Option(filter, "slug"), "_eq")
      limit == Option(q, "limit")
      Selected(rec) ==
        \/ filter = Undef
        \/ /\ ~IsNullish(Get(rec, "slug"))
           /\ ToText(Get(rec, "slug")) = ToText(wanted)
      selected == SelectSeq(contents, Selected)
  IN Obj([data |-> Arr(IF limit.k = "number" /\ Len(selected) > limit.v
                       THEN SubSeq(selected, 1, limit.v)
                       ELSE selected)])

\* A slot in which no request is being handled.
NoRoute ==
  [pc |-> "idle", call |-> NoCall, dispatched |-> NoDispatch,
   transport |-> NoTransport, body |-> NoSettlement, result |-> NoResult,
   served |-> NoServed]

\* The requests the page makes: the list (products-service.ts line 162) and
\* the link of a listed product (page.tsx lines 31-36, products-service.ts
\* line 195).
PageCalls ==
  {[NoCall EXCEPT !.op = "apiProducts", !.reqQuery = Entries(<<>>)]}
  \cup {[NoCall EXCEPT !.op = "apiProductBySlug",
                       !.slug = Get(listing[i], "slug")] : i \in 1..Len(listing)}

\* The boundary server starts in front of a CMS; DIRECTUS_URL is set or
\* missing.
InitCms ==
  /\ baseUrl \in {Chars(<<"a">>), Chars(<<>>)}
  /\ normalizedBaseUrl = sanitizeBaseUrl(baseUrl)
  /\ token = Null
  /\ ClientIdle
  /\ QueryOff
  /\ ConcOff
  /\ cms \in CmsContents
  /\ listing = <<>>
  /\ routes = [r \in Slots |-> NoRoute]

\* An OPTIONS request is answered by the middleware (lines 13-30), which
\* does not call next().
Preflight(r) ==
  /\ routes[r].pc = "idle"
  /\ routes' = [routes EXCEPT ![r] =
       [NoRoute EXCEPT !.pc = "done",
                       !.call = [NoCall EXCEPT !.op = "options", !.method = "OPTIONS"],
                       !.served = [status |-> 204, body |-> Undef]]]
  /\ UNCHANGED <<cms, listing>>
  /\ UNCHANGED <<clientVars, queryVars, concVars>>

\* A GET request of the page reaches its route handler, which runs to the
\* first suspension point of request (part_001 lines 223-240 and 260-266,
\* client.js lines 147-165).
RouteRequest(r, c) ==
  /\ routes[r].pc = "idle"
  /\ routes' = [routes EXCEPT ![r] =
       IF c.op = "apiProducts" /\ parseFilter(Option(c.reqQuery, "filter")) = Null
       THEN [NoRoute EXCEPT !.pc = "done", !.call = c, !.served = FilterRejected(c)]
       ELSE IF ~Truthy(normalizedBaseUrl)
       THEN [NoRoute EXCEPT !.pc = "done", !.call = c,
                            !.result = Returned(c, ConfigFailure),
                            !.served = Respond(c, Returned(c, ConfigFailure), baseUrl)]
       ELSE [NoRoute EXCEPT !.pc = "token", !.call = c]]
  /\ UNCHANGED <<cms, listing>>
  /\ UNCHANGED <<clientVars, queryVars, concVars>>

\* resolveToken settles for the handler of slot r; request calls the
\* transport (client.js lines 165-182).
RouteTokenSettles(r) ==
  /\ routes[r].pc = "token"
  /\ \E o \in resolveToken(token) :
       /\ o.kind = "returns"
       /\ routes' = [routes EXCEPT ![r].pc = "fetch",
                                   ![r].dispatched = RequestInit(routes[r].call, o.value)]
  /\ UNCHANGED <<cms, listing>>
  /\ UNCHANGED <<clientVars, queryVars, concVars>>

\* The CMS cannot be reached: the transport call of slot r rejects
\* (client.js lines 183-191) and the route sends the error.
CmsFails(r) ==
  /\ routes[r].pc = "fetch"
  /\ \E e \in ThrownValues :
       LET c == routes[r].call
           res == Returned(c, NetworkFailure(e))
       IN routes' = [routes EXCEPT
            ![r].pc = "done",
            ![r].transport = [kind |-> "throws", response |-> NoResponse, error |-> e],
            ![r].result = res,
            ![r].served = Respond(c, res, baseUrl)]
  /\ UNCHANGED <<cms, listing>>
  /\ UNCHANGED <<clientVars, queryVars, concVars>>

\* The CMS answers the request of slot r with status 200 and JSON; the
\* body read starts (client.js lines 98-105).
CmsResponds(r) ==
  /\ routes[r].pc = "fetch"
  /\ routes' = [routes EXCEPT
       ![r].pc = "parse",
       ![r].transport =
         [kind |-> "response",
          response |-> [ok |-> TRUE, status |-> 200, contentType |-> "application/json"],
          error |-> Undef]]
  /\ UNCHANGED <<cms, listing>>
  /\ UNCHANGED <<clientVars, queryVars, concVars>>

\* The body read of slot r rejects (client.js lines 197-205); the route
\* sends the error.
RouteBodyFails(r) ==
  /\ routes[r].pc = "parse"
  /\ \E e \in DecodeErrors :
       LET c == routes[r].call
           res == Returned(c, ParseFailure(routes[r].transport.response, e))
       IN routes' = [routes EXCEPT
            ![r].pc = "done",
            ![r].body = [kind |-> "throws", value |-> e],
            ![r].result = res,
            ![r].served = Respond(c, res, baseUrl)]
  /\ UNCHANGED <<cms, listing>>
  /\ UNCHANGED <<clientVars, queryVars, concVars>>

\* The body read of slot r resolves to the records the CMS selected; the
\* route maps and sends them (client.js lines 196, 208-223; part_001 lines
\* 249-257 and 268-288).
RouteBodyDecodes(r) ==
  /\ routes[r].pc = "parse"
  /\ LET c == routes[r].call
         response == routes[r].transport.response
         answer == CmsAnswer(cms, QueryOf(c))
         res == Returned(c, ClassifyResponse(response, parseResponse(response, answer)))
     IN routes' = [routes EXCEPT
          ![r].pc = "done",
          ![r].body = [kind |-> "value", value |-> answer],
          ![r].result = res,
          ![r].served = Respond(c, res, baseUrl)]
  /\ UNCHANGED <<cms, listing>>
  /\ UNCHANGED <<clientVars, queryVars, concVars>>

\* The fetch of the page resolves with the response of slot r
\* (products-service.ts lines 71-73); request starts the body read and
\* suspends at await response.json() (line 90).  The answer to an OPTIONS
\* request has no body and is not read by request: its slot is free again.
PageFetchResolves(r) ==
  /\ routes[r].pc = "done"
  /\ routes' = [routes EXCEPT ![r] =
       IF routes[r].call.op = "options"
       THEN NoRoute
       ELSE [routes[r] EXCEPT !.pc = "received"]]
  /\ UNCHANGED <<cms, listing>>
  /\ UNCHANGED <<clientVars, queryVars, concVars>>

\* The body of the answer of slot r arrives at the page.  For the list,
\* request of products-service.ts looks at response.ok only and takes
\* payload?.data ?? null (lines 118-147), getProductList turns what is no
\* array into [] (lines 161-174); Home renders a link for every product of
\* a successful list and none otherwise.
PageBodyArrives(r) ==
  /\ routes[r].pc = "received"
  /\ listing' = IF routes[r].call.op # "apiProducts"
                THEN listing
                ELSE LET data == Coalesce(Get(routes[r].served.body, "data"), Null)
                     IN IF routes[r].served.status \in 200..299 /\ IsArray(data)
                        THEN data.v
                        ELSE <<>>
  /\ routes' = [routes EXCEPT ![r] = NoRoute]
  /\ UNCHANGED cms
  /\ UNCHANGED <<clientVars, queryVars, concVars>>

NextCms ==
  \E r \in Slots :
    \/ Preflight(r)
    \/ \E c \in PageCalls : RouteRequest(r, c)
    \/ RouteTokenSettles(r)
    \/ CmsFails(r)
    \/ CmsResponds(r)
    \/ RouteBodyFails(r)
    \/ RouteBodyDecodes(r)
    \/ PageFetchResolves(r)
    \/ PageBodyArrives(r)

SpecCms == InitCms /\ [][NextCms]_vars

(***************************************************************************)
(* Properties                                                              *)
(***************************************************************************)
Returned_ == pc = "done" /\ outcome = "returned"

ClientOps == {"request", "get", "post", "patch", "delete", "graphql"}
ListOps == {"listProducts", "queryProducts"}

ErrorType == Get(result.error, "type")

\* The call got a response and its body read resolved.
Decoded == Returned_ /\ transport.kind = "response" /\ body.kind = "value"

\* The payload request classified: what parseResponse resolved to.
Payload == parseResponse(transport.response, body.value)

\* C1: every returned envelope has exactly one of data and error non-null,
\* in agreement with ok: ok=true means data non-null and error null,
\* ok=false means data null, meta null and error non-null.
C1_EnvelopeExclusivity ==
  Returned_ =>
    /\ (~IsNullish(result.data)) # (~IsNullish(result.error))
    /\ result.ok => (~IsNullish(result.data) /\ result.error = Null)
    /\ ~result.ok =>
         (result.data = Null /\ result.meta = Null /\ ~IsNullish(result.error))

\* C2: a call never rejects: no call that has completed has done so by
\* rejecting the promise of request.
C2_NeverRejects == pc = "done" => outcome # "rejected"

\* The base URL option is absent, not a string, or only whitespace.
BlankBaseUrl ==
  \/ ~IsString(baseUrl)
  \/ \A i \in 1..Len(baseUrl.v) : baseUrl.v[i] = " "

\* C3: on a client whose base URL is absent, non-string or blank, every
\* call of request, get, post, patch, delete and graphql returns a failure
\* of type "config", and the transport is never invoked.
C3_ConfigShortCircuit ==
  (BlankBaseUrl /\ call.op \in ClientOps) =>
    /\ fetchCalls = 0
    /\ pc = "done"
    /\ outcome = "returned"
    /\ ~result.ok
    /\ ErrorType = Str("config")

\* A whitespace-only base URL: patch has returned the config failure.
C3_Witness ==
  /\ baseUrl = Chars(<<" ", " ">>)
  /\ call.op = "patch"
  /\ Returned_
  /\ ErrorType = Str("config")
  /\ fetchCalls = 0

\* The call got a non-success response whose body decoded.
DecodedFailure == Decoded /\ ~transport.response.ok

HasKey(x, key) == x.k = "object" /\ key \in DOMAIN x.v

Falsy == {Undef, Null, Bool(FALSE), Num(0), Str("")}

\* The payload has the key and its value is none of undefined, null, false,
\* 0 and "".
HasTruthy(x, key) == HasKey(x, key) /\ x.v[key] \notin Falsy

\* C4 as claimed: a non-success response whose body decodes is classified
\* "api" exactly when the payload contains an `errors` array or an `error`
\* field whatever its value, and "http" otherwise.
C4_ApiIffErrorFieldPresent ==
  DecodedFailure =>
    /\ ErrorType \in {Str("api"), Str("http")}
    /\ ErrorType = Str("api") <=>
         \/ HasKey(Payload, "errors") /\ IsArray(Payload.v["errors"])
         \/ HasKey(Payload, "error")

\* C4 as amended: a non-success response whose body decodes is classified
\* "api" exactly when the payload's `errors` or `error` value is truthy
\* (any array, also an empty one; any object; a non-empty string; a
\* non-zero number), and "http" otherwise, also when the field is present
\* with the value null, "", 0 or false.
C4_ApiIffErrorFieldTruthy ==
  DecodedFailure =>
    /\ ErrorType \in {Str("api"), Str("http")}
    /\ ErrorType = Str("api") <=>
         (HasTruthy(Payload, "errors") \/ HasTruthy(Payload, "error"))

\* A 400 response with the body {error: "bad"} has been classified "api".
C4_Witness ==
  /\ DecodedFailure
  /\ transport.response.status = 400
  /\ body.value = Obj([error |-> Str("bad")])
  /\ ErrorType = Str("api")

\* The payload has a non-empty `errors` array.
HasErrorEntries ==
  /\ HasKey(Payload, "errors")
  /\ IsArray(Payload.v["errors"])
  /\ Len(Payload.v["errors"].v) > 0

FirstEntry == Payload.v["errors"].v[1]

ErrorField(name) == Get(result.error, name)

\* C5 as claimed: for a non-success response with status N and a non-empty
\* `errors` array the error has type "api", status N, the first entry's
\* message (the generic text when it has none), the first entry's
\* extensions.code when present and null otherwise, and the first entry as
\* details.
C5_ApiErrorFromFirstEntry ==
  (DecodedFailure /\ HasErrorEntries) =>
    /\ ErrorType = Str("api")
    /\ ErrorField("status") = Num(transport.response.status)
    /\ ErrorField("message") =
         IF HasKey(FirstEntry, "message")
         THEN FirstEntry.v["message"]
         ELSE DirectusFailedMessage(transport.response.status)
    /\ ErrorField("code") =
         IF HasKey(Get(FirstEntry, "extensions"), "code")
         THEN FirstEntry.v["extensions"].v["code"]
         ELSE Null
    /\ ErrorField("details") = FirstEntry

\* C5 as amended: when the first entry of `errors` is truthy, the error has
\* type "api", status N, details equal to that entry, message equal to the
\* entry's message when that is truthy and the generic text otherwise, and
\* code equal to the entry's extensions.code when truthy, else the entry's
\* own code when truthy, else null.
C5_ApiErrorFromTruthyFirstEntry ==
  (DecodedFailure /\ HasErrorEntries /\ FirstEntry \notin Falsy) =>
    /\ ErrorType = Str("api")
    /\ ErrorField("status") = Num(transport.response.status)
    /\ ErrorField("message") =
         IF HasTruthy(FirstEntry, "message")
         THEN FirstEntry.v["message"]
         ELSE DirectusFailedMessage(transport.response.status)
    /\ ErrorField("code") =
         IF HasTruthy(Get(FirstEntry, "extensions"), "code")
         THEN FirstEntry.v["extensions"].v["code"]
         ELSE IF HasTruthy(FirstEntry, "code")
              THEN FirstEntry.v["code"]
              ELSE Null
    /\ ErrorField("details") = FirstEntry

\* The Directus validation error of a 400 response has been mapped.
C5_Witness ==
  /\ DecodedFailure
  /\ transport.response.status = 400
  /\ HasErrorEntries
  /\ ErrorField("code") = Str("FAILED_VALIDATION")
  /\ ErrorField("message") = Str("Invalid query")
  /\ ErrorField("details") = FirstEntry

\* C6: for every failure request returns, whatever its type, retryable is
\* true if the failure is a network failure or the response status is 500
\* or above, and false otherwise.
C6_RetryableIffNetworkOr5xx ==
  (Returned_ /\ ~result.ok) =>
    ErrorField("retryable") =
      Bool(\/ ErrorType = Str("network")
           \/ transport.kind = "response" /\ transport.response.status >= 500)

\* C7: request returns an error of type "network" (retryable, status null,
\* message from the underlying error) if and only if the transport was
\* invoked and itself threw or rejected.
C7_NetworkIffTransportFailed ==
  Returned_ =>
    /\ ErrorType = Str("network") <=> (fetchCalls > 0 /\ transport.kind = "throws")
    /\ ErrorType = Str("network") =>
         /\ ErrorField("retryable") = Bool(TRUE)
         /\ ErrorField("status") = Null

\* The call of a client entry point got a success response whose body decoded.
DecodedSuccess == Decoded /\ transport.response.ok /\ call.op \in ClientOps

\* C8: a successful payload with a `data` key is unwrapped to data =
\* payload.data and meta = payload.meta ?? null (meta is kept unless it is
\* null or absent); a payload without a `data` key is returned whole as
\* data with meta null.
C8_UnwrapKeepsNonNullMeta ==
  DecodedSuccess =>
    /\ result.ok
    /\ result.error = Null
    /\ IF HasKey(Payload, "data")
       THEN /\ result.data = Payload.v["data"]
            /\ result.meta = IF IsNullish(Get(Payload, "meta"))
                             THEN Null
                             ELSE Payload.v["meta"]
       ELSE /\ result.data = Payload
            /\ result.meta = Null

\* The transport answered with a content type that does not indicate JSON.
NonJsonResponse ==
  /\ transport.kind = "response"
  /\ transport.response.contentType \in {"none", "text/plain"}

\* C9: for a response whose content type does not indicate JSON the body is
\* read as text and never through the JSON decoder, and once the text is
\* read a 2xx response is a success whose data is {raw: text}, or {} for
\* empty text, with meta null.
C9_NonJsonBodyWrappedAsRaw ==
  NonJsonResponse =>
    /\ jsonCalls = 0
    /\ textCalls = 1
    /\ (Decoded /\ transport.response.ok /\ call.op \in ClientOps) =>
         /\ result.ok
         /\ result.error = Null
         /\ result.meta = Null
         /\ result.data = IF body.value = Str("")
                          THEN EmptyObj
                          ELSE Obj([raw |-> body.value])

\* A 200 text/plain response with the text "hello" has been returned as
\* {raw: "hello"}.
C9_Witness ==
  /\ Decoded
  /\ call.op = "get"
  /\ transport.response.status = 200
  /\ transport.response.contentType = "text/plain"
  /\ body.value = Str("hello")
  /\ result.ok
  /\ result.data = Obj([raw |-> Str("hello")])
  /\ jsonCalls = 0

\* The data request hands to listProducts for the decoded payload.
UnwrappedData == IF HasKey(Payload, "data") THEN Payload.v["data"] ELSE Payload

\* C10: whenever listProducts or queryProducts returns ok:true, data is an
\* array: the array of the payload, same elements in the same order, or
\* the empty array when the payload's data is not an array.
C10_ListDataIsArray ==
  (Returned_ /\ call.op \in ListOps /\ result.ok) =>
    /\ IsArray(result.data)
    /\ Decoded /\ transport.response.ok
    /\ result.data = IF IsArray(UnwrappedData) THEN UnwrappedData ELSE Arr(<<>>)

\* listProducts has coerced a single-object payload to the empty array.
C10_Witness ==
  /\ Returned_
  /\ call.op = "listProducts"
  /\ body.value = Obj([data |-> Item1])
  /\ result.ok
  /\ result.data = Arr(<<>>)

\* queryProducts has returned a two-element array in the order received.
C10_WitnessOrder ==
  /\ Returned_
  /\ call.op = "queryProducts"
  /\ UnwrappedData = Arr(<<Item2, Item1>>)
  /\ result.data = Arr(<<Item2, Item1>>)

\* The transport has been invoked by the current call.
Dispatched == pc \in {"fetch", "parse", "done"} /\ fetchCalls > 0

\* The last path segment expected for each valid product identifier.
ExpectedIdSegment(id) ==
  CASE id = Str("p1") -> <<"p1">>
    [] id = Num(0) -> <<"0">>
    [] id = Chars(<<"a", "/", "b">>) -> <<"a", "%2F", "b">>

\* C11: getProductDetail with an identifier that is undefined, null or ""
\* returns a validation failure without entering the client (no token
\* resolution, no transport call); with any other identifier it makes one
\* GET to <base>/items/Products/<urlEncodedId> (one transport call at most,
\* and one whenever the base URL is valid and the token resolves) and
\* returns the client's envelope unchanged.
C11_DetailValidatesIdentifier ==
  call.op = "getProductDetail" =>
    IF call.productId \in {Undef, Null, Str("")}
    THEN /\ Returned_
         /\ ~result.ok
         /\ ErrorType = Str("validation")
         /\ fetchCalls = 0
         /\ resolverCalls = 0
         /\ dispatched = NoDispatch
    ELSE /\ fetchCalls <= 1
         /\ Returned_ => ErrorType # Str("validation")
         /\ (Returned_ /\ Truthy(normalizedBaseUrl)) => fetchCalls = 1
         /\ Dispatched =>
              /\ dispatched.method = "GET"
              /\ \E suffix \in {<<>>, <<"?", "fields", "=", "id", "%2C", "name">>} :
                   dispatched.url =
                     normalizedBaseUrl.v \o <<"/", "items", "/", "Products", "/">>
                       \o ExpectedIdSegment(call.productId) \o suffix
         /\ Decoded =>
              result = ClassifyResponse(transport.response, Payload)

\* getProductDetail(0) has fetched /items/Products/0 and returned the
\* record the CMS sent.
C11_Witness ==
  /\ Decoded
  /\ call.op = "getProductDetail"
  /\ call.productId = Num(0)
  /\ dispatched.url = normalizedBaseUrl.v \o <<"/", "items", "/", "Products", "/", "0">>
  /\ body.value = Obj([data |-> Item1])
  /\ result.ok
  /\ result.data = Item1

\* The position of a parameter name in the order of buildProductsQuery.
ParamRank(name) ==
  CASE name = "filter" -> 1
    [] name = "fields" -> 2
    [] name = "sort" -> 3
    [] name = "limit" -> 4
    [] name = "page" -> 5
    [] name = "search" -> 6
    [] OTHER -> 0

\* The indexes of the dispatched URL at which a query parameter starts.
ParamStarts(url) == {i \in 2..Len(url) : url[i - 1] \in {"?", "&"}}

ListUrlPrefix == normalizedBaseUrl.v \o <<"/", "items", "/", "Products">>

LimitAndFilter ==
  { Entries(<< <<"limit", Num(1)>>, <<"filter", PublishedFilter>> >>),
    Entries(<< <<"filter", PublishedFilter>>, <<"limit", Num(1)>> >>) }

\* C12: listProducts issues a GET to <baseUrl>/items/Products whose query
\* parameters come in the order filter, fields, sort, limit, page, search
\* whatever the key order of the options; options with limit 1 and the
\* published filter give ?filter%5Bstatus%5D%5B_eq%5D=published&limit=1;
\* and a response {data: [...], meta: {filter_count: 1}} is returned as
\* {ok: true, data: [...], meta: {filter_count: 1}}.
C12_ListQueryInFixedOrder ==
  (call.op \in ListOps /\ Dispatched) =>
    /\ dispatched.method = "GET"
    /\ SubSeq(dispatched.url, 1, Len(ListUrlPrefix)) = ListUrlPrefix
    /\ Len(dispatched.url) > Len(ListUrlPrefix) =>
         dispatched.url[Len(ListUrlPrefix) + 1] = "?"
    /\ \A i, j \in ParamStarts(dispatched.url) :
         /\ ParamRank(dispatched.url[i]) > 0
         /\ i < j => ParamRank(dispatched.url[i]) < ParamRank(dispatched.url[j])
    /\ call.options \in LimitAndFilter =>
         dispatched.url =
           ListUrlPrefix \o <<"?", "filter", "%5B", "status", "%5D", "%5B", "_eq",
                              "%5D", "=", "published", "&", "limit", "=", "1">>
    /\ (Decoded /\ transport.response.ok
          /\ body.value = Obj([data |-> Arr(<<Item1>>),
                               meta |-> Obj([filter_count |-> Num(1)])])) =>
         result = [ok |-> TRUE, data |-> Arr(<<Item1>>),
                   meta |-> Obj([filter_count |-> Num(1)]), error |-> Null]

\* listProducts({limit: 1, filter: {status: {_eq: "published"}}}) has sent
\* the filter before the limit and returned the CMS list with its meta.
C12_Witness ==
  /\ Decoded
  /\ call.op = "listProducts"
  /\ call.options = Entries(<< <<"limit", Num(1)>>, <<"filter", PublishedFilter>> >>)
  /\ dispatched.url =
       ListUrlPrefix \o <<"?", "filter", "%5B", "status", "%5D", "%5B", "_eq",
                          "%5D", "=", "published", "&", "limit", "=", "1">>
  /\ result.ok
  /\ result.data = Arr(<<Item1>>)
  /\ result.meta = Obj([filter_count |-> Num(1)])

VerbHelpers == {"get", "post", "patch", "delete"}

VerbMethod(op) ==
  CASE op = "get" -> "GET"
    [] op = "post" -> "POST"
    [] op = "patch" -> "PATCH"
    [] op = "delete" -> "DELETE"

\* C14: each verb helper fixes the method the transport sees (get GET, post
\* POST, patch PATCH, delete DELETE) whatever the caller's options hold,
\* options.method and the ts client's options.fetchOptions included, and
\* post and patch dispatch their body argument.
C14_VerbHelpersFixMethod ==
  (call.op \in VerbHelpers /\ Dispatched) =>
    /\ dispatched.method = VerbMethod(call.op)
    /\ call.op \in {"post", "patch"} =>
         dispatched.body = IF PassesThrough(call.body)
                           THEN call.body
                           ELSE JsonStringify(call.body)

\* The call has finished after request passed the base-URL check and the
\* token resolution returned a value.
FinishedPastToken ==
  /\ pc = "done"
  /\ call.op # "none"
  /\ ~(call.op = "getProductDetail" /\ call.productId \in {Undef, Null, Str("")})
  /\ Truthy(normalizedBaseUrl)
  /\ tokenOutcome.kind = "returns"

\* The body handed to request cannot be encoded as JSON.
BodyNotEncodable ==
  ~PassesThrough(BodyOf(call)) /\ JsonStringifyThrows(BodyOf(call))

\* C19: request never retries: each call invokes the transport at most
\* once, a failure with retryable true included, and exactly once when the
\* base URL is valid and token resolution completes; the products helpers
\* add no transport invocation.
C19_TransportExactlyOnce ==
  /\ fetchCalls <= 1
  /\ FinishedPastToken => fetchCalls = 1

\* C19 as the code has it: at most once always; exactly once when the base
\* URL is valid, token resolution returned and the body could be encoded;
\* never when one of these fails.
C19_TransportAtMostOnce ==
  /\ fetchCalls <= 1
  /\ (FinishedPastToken /\ ~BodyNotEncodable) => fetchCalls = 1
  /\ (FinishedPastToken /\ BodyNotEncodable) => fetchCalls = 0
  /\ (pc = "done" /\ ~FinishedPastToken) => fetchCalls = 0
  /\ (Returned_ /\ ~result.ok /\ ErrorField("retryable") = Bool(TRUE)
        /\ ~BodyNotEncodable) => fetchCalls = 1

\* A products helper call ended in a retryable network failure after one
\* transport invocation.
C19_Witness ==
  /\ Returned_
  /\ call.op \in ListOps
  /\ transport.kind = "throws"
  /\ ~result.ok
  /\ ErrorField("retryable") = Bool(TRUE)
  /\ fetchCalls = 1

\* A route of the boundary server has answered after its products helper
\* returned a failure.
ServedFailure == call.op \in ServerOps /\ Returned_ /\ ~result.ok

ServedError == Get(served.body, "error")

\* C15: when the products helper fails, the boundary server answers with
\* the status of the error type: validation 400, not_found 404, config
\* 500, network 502, any other type the numeric status of the error, else
\* 502; and the status field of the JSON error body is the status sent.
C15_StatusFromErrorType ==
  ServedFailure =>
    /\ served.status =
         (CASE ErrorType = Str("validation") -> 400
            [] ErrorType = Str("not_found") -> 404
            [] ErrorType = Str("config") -> 500
            [] ErrorType = Str("network") -> 502
            [] OTHER -> IF ErrorField("status").k = "number"
                        THEN ErrorField("status").v
                        ELSE 502)
    /\ ~Truthy(normalizedBaseUrl) => served.status = 500
    /\ (Truthy(normalizedBaseUrl) /\ transport.kind # "response") => served.status = 502
    /\ transport.kind = "response" => served.status = transport.response.status
    /\ Get(ServedError, "status") = Num(served.status)
    /\ Get(ServedError, "type") = ErrorType

\* GET /api/products answered 503 for an api error the CMS sent with 503.
C15_Witness ==
  /\ ServedFailure
  /\ call.op = "apiProducts"
  /\ ErrorType = Str("api")
  /\ transport.response.status = 503
  /\ served.status = 503
  /\ Get(ServedError, "status") = Num(503)

\* C16: GET /api/products/:slug answers 404 with an error of type
\* not_found when the helper returned ok with an empty array, and answers
\* {data: Product} only when the helper returned at least one item; the
\* 404 is the server's own error, not one of the CMS.
C16_EmptyResultIsNotFound ==
  (call.op = "apiProductBySlug" /\ Returned_ /\ result.ok) =>
    /\ IsArray(result.data)
    /\ result.data = Arr(<<>>) =>
         /\ served.status = 404
         /\ Get(ServedError, "type") = Str("not_found")
         /\ Get(ServedError, "status") = Num(404)
         /\ Get(ServedError, "code") = Null
         /\ Get(ServedError, "details") = Obj([slug |-> call.slug])
         /\ ~HasKey(served.body, "data")
    /\ served.status \in {200, 404}
    /\ served.status = 200 =>
         /\ Len(result.data.v) >= 1
         /\ served.body = Obj([data |-> mapProduct(result.data.v[1], baseUrl)])
         /\ Get(Get(served.body, "data"), "id") = String(Get(result.data.v[1], "id"))
    /\ (Len(result.data.v) >= 1 /\ Truthy(result.data.v[1])) => served.status = 200

\* The CMS answered 200 with {data: [], meta: null} and the route sent 404.
C16_Witness ==
  /\ call.op = "apiProductBySlug"
  /\ Decoded
  /\ transport.response.status = 200
  /\ body.value = Obj([data |-> Arr(<<>>), meta |-> Null])
  /\ result.ok
  /\ served.status = 404
  /\ Get(ServedError, "type") = Str("not_found")

PublishedFilterText ==
  <<"filter", "%5B", "status", "%5D", "%5B", "_eq", "%5D", "=", "published">>

\* `part` occurs in `text` as a run of consecutive pieces.
Contains(text, part) ==
  \E i \in 1..(Len(text) - Len(part) + 1) :
    SubSeq(text, i, i + Len(part) - 1) = part

\* C17: every CMS request the boundary server issues, for any query given
\* to GET /api/products and any slug given to GET /api/products/:slug,
\* restricts the results to records with status "published".
C17_OnlyPublishedRequested ==
  (call.op \in ServerOps /\ Dispatched) =>
    Contains(dispatched.url, PublishedFilterText)

\* The leaves of a query in depth-first insertion order, each with the
\* keys that lead to it.
RECURSIVE LeavesOf(_, _)
RECURSIVE LeavesOfEntries(_, _)
LeavesOf(path, value) ==
  IF value.k = "entries" THEN LeavesOfEntries(path, value.v) ELSE << <<path, value>> >>

LeavesOfEntries(path, entries) ==
  IF entries = <<>> THEN <<>>
  ELSE LeavesOf(Append(path, Head(entries)[1]), Head(entries)[2])
       \o LeavesOfEntries(path, Tail(entries))

\* A leaf that is a non-null scalar or a non-empty array.
EmittingLeaf(leaf) == ~IsNullish(leaf) /\ leaf # Arr(<<>>)

\* topKey[nested1][nested2]...
RECURSIVE BracketKey(_)
BracketKey(path) ==
  IF Len(path) = 1 THEN <<path[1]>>
  ELSE BracketKey(SubSeq(path, 1, Len(path) - 1)) \o <<"[", path[Len(path)], "]">>

\* The parameters the claim describes for the leaves `ls`.
RECURSIVE ParamsOfLeaves(_)
ParamsOfLeaves(ls) ==
  IF ls = <<>> THEN <<>>
  ELSE LET path == Head(ls)[1]
           leaf == Head(ls)[2]
       IN (IF EmittingLeaf(leaf)
           THEN << <<BracketKey(path),
                     IF IsArray(leaf) THEN JoinComma(leaf.v) ELSE ToText(leaf)>> >>
           ELSE <<>>)
          \o ParamsOfLeaves(Tail(ls))

ExpectedParams(q) == IF q = Undef THEN <<>> ELSE ParamsOfLeaves(LeavesOf(<<>>, q))

\* The number of name=value pairs of a query string.
PairCount(text) == Cardinality({i \in 1..Len(text) : text[i] = "="})

\* C13: serializeQuery emits exactly one parameter for each leaf that is a
\* non-null scalar or a non-empty array, in depth-first insertion order,
\* its key the top-level key followed by one [nestedKey] per level and its
\* value String(scalar) or the comma-joined array; null and undefined,
\* empty arrays and empty mappings emit nothing, and an empty input gives
\* the empty string.
C13_OneParameterPerLeaf ==
  qpc = "returned" =>
    /\ queryString = ParamsToString(ExpectedParams(query))
    /\ PairCount(queryString) = Len(ExpectedParams(query))
    /\ ExpectedParams(query) = <<>> => queryString = <<>>
    /\ query \in {Undef, Entries(<<>>)} => queryString = <<>>
    /\ query = Entries(<< <<"limit", Arr(<<>>)>>, <<"filter", Entries(<<>>)>> >>) =>
         queryString = <<>>
    /\ query = Entries(<< <<"limit", Num(0)>>,
                          <<"filter", Entries(<< <<"filter", Entries(<<
                                        <<"limit", Str("")>>,
                                        <<"filter", Arr(<<Str("id"), Null, Num(2)>>)>> >>)>> >>)>> >>) =>
         queryString = <<"limit", "=", "0", "&",
                         "filter", "%5B", "filter", "%5D", "%5B", "limit", "%5D", "=", "&",
                         "filter", "%5B", "filter", "%5D", "%5B", "filter", "%5D", "=",
                         "id", "%2C", "%2C", "2">>
    /\ query = TestQuery =>
         queryString = <<"limit", "=", "1", "0", "&",
                         "filter", "%5B", "status", "%5D", "%5B", "_eq", "%5D", "=",
                         "published", "&",
                         "filter", "%5B", "price", "%5D", "%5B", "_lte", "%5D", "=",
                         "9", "9", "&",
                         "fields", "=", "id", "%2C", "name">>

\* serializeQuery has returned for a query nested three levels deep whose
\* leaves include skipped and emitted ones.
C13_Witness ==
  /\ qpc = "returned"
  /\ query = Entries(<< <<"limit", Num(0)>>,
                        <<"filter", Entries(<< <<"filter", Entries(<<
                                      <<"limit", Str("")>>,
                                      <<"filter", Arr(<<Str("id"), Null, Num(2)>>)>> >>)>> >>)>> >>)
  /\ Len(ExpectedParams(query)) = 3
  /\ queryString # <<>>

\* The headers a request dispatches according to its own arguments and
\* its own token resolution.
OwnHeaders(c, o) ==
  [n \in HeaderNames |->
     CASE n = "Accept" -> Str("application/json")
       [] n = "X-Trace" -> (IF c.headers = Undef THEN Undef ELSE Str("1"))
       [] n = "Content-Type" ->
            (IF c.body = Undef THEN Undef ELSE Str("application/json"))
       [] n = "Authorization" ->
            (IF o.value \in {Null, Str("")} THEN Undef
             ELSE [k |-> "bearer", v |-> o.value.v])]

\* The envelope a finished request returns according to its own transport
\* response and body.
OwnResult(q) ==
  CASE ~Truthy(normalizedBaseUrl) -> ConfigFailure
    [] q.transport.kind = "throws" -> NetworkFailure(q.transport.error)
    [] q.body.kind = "throws" -> ParseFailure(q.transport.response, q.body.value)
    [] OTHER -> ClassifyResponse(q.transport.response, q.body.value)

\* C18: with any number of requests in flight on one client and any
\* interleaving of their suspension points, the URL, method, headers and
\* body a request dispatches and the envelope it returns depend on its own
\* arguments, token resolution and transport response only; the base URL
\* and the caller's options objects are not mutated.
C18_RequestsIndependent ==
  /\ heap[CallerRef] = CallerHeaders
  /\ normalizedBaseUrl = sanitizeBaseUrl(baseUrl)
  /\ \A r \in Slots :
       LET q == reqs[r]
       IN /\ q.fetchCalls > 0 =>
               /\ q.dispatched.url =
                    normalizedBaseUrl.v \o <<"/", "items", "/", "Products">>
                    \o (IF q.call.query = Undef THEN <<>> ELSE <<"?", "limit", "=", "1">>)
               /\ q.dispatched.method = q.call.method
               /\ q.dispatched.headers = OwnHeaders(q.call, q.tokenOutcome)
               /\ q.dispatched.body =
                    (IF q.call.body = Undef THEN Undef ELSE JsonStringify(q.call.body))
               /\ heap[q.headersRef] = q.dispatched.headers
          /\ (q.pc = "done" /\ q.outcome = "returned") => q.result = OwnResult(q)

\* Two requests given the same headers object are in flight at once, one
\* waiting for its body and one for the transport, each with its own
\* headers.
C18_Witness ==
  /\ reqs[1].pc = "parse"
  /\ reqs[2].pc = "fetch"
  /\ reqs[1].call.headers = Ref(CallerRef)
  /\ reqs[2].call.headers = Ref(CallerRef)
  /\ reqs[1].call.method = "POST"
  /\ reqs[2].call.method = "GET"
  /\ reqs[1].dispatched.headers["Content-Type"] = Str("application/json")
  /\ reqs[2].dispatched.headers["Content-Type"] = Undef
  /\ reqs[1].tokenOutcome.value # reqs[2].tokenOutcome.value

\* C20: with a resolver as token, each request that passes the base-URL
\* check invokes the resolver exactly once, after the check and before its
\* transport call; a request that fails the check never invokes it; and a
\* request sends the value resolved for itself, not the one resolved for
\* another request.
C20_ResolverOncePerRequest ==
  \A r \in Slots :
    LET q == reqs[r]
    IN /\ q.resolverCalls =
            (IF token.k = "function" /\ q.pc # "idle" /\ Truthy(normalizedBaseUrl)
             THEN 1 ELSE 0)
       /\ ~Truthy(normalizedBaseUrl) => q.resolverCalls = 0 /\ q.fetchCalls = 0
       /\ q.pc = "token" => q.fetchCalls = 0 /\ q.tokenOutcome = NoSettlement
       /\ q.fetchCalls > 0 =>
            /\ q.fetchCalls = 1
            /\ q.tokenOutcome.kind = "returns"
            /\ token.k = "function" => q.resolverCalls = 1
            /\ q.dispatched.headers["Authorization"] =
                 (IF q.tokenOutcome.value \in {Null, Str("")} THEN Undef
                  ELSE [k |-> "bearer", v |-> q.tokenOutcome.value.v])

\* Two requests on a client with a resolver have each invoked it once; the
\* first sent the token it resolved, the second resolved none and sent none.
C20_Witness ==
  /\ token = Resolver
  /\ reqs[1].pc = "done"
  /\ reqs[2].pc = "fetch"
  /\ reqs[1].resolverCalls = 1
  /\ reqs[2].resolverCalls = 1
  /\ reqs[1].tokenOutcome.value = Str("tok")
  /\ reqs[2].tokenOutcome.value = Null
  /\ reqs[1].dispatched.headers["Authorization"] = [k |-> "bearer", v |-> "tok"]
  /\ reqs[2].dispatched.headers["Authorization"] = Undef

\* The transport gave a response and reading its body threw or rejected.
DecodeFailed == Returned_ /\ transport.kind = "response" /\ body.kind = "throws"

\* C21: when the transport returns a response but decoding its body throws
\* or rejects, request returns {ok: false, error: {type: "parse", status:
\* the response status, details: the decode error}} whether or not the
\* status is in the success range, and never a network, api or http error.
C21_DecodeFailureIsParse ==
  /\ DecodeFailed =>
       /\ ~result.ok
       /\ result.data = Null
       /\ ErrorType = Str("parse")
       /\ ErrorField("status") = Num(transport.response.status)
       /\ ErrorField("details") = body.value
       /\ ErrorField("message") = Str("Unable to parse API response.")
  /\ (Returned_ /\ ErrorType = Str("parse")) => DecodeFailed

\* A 200 response whose body could not be decoded came back as a parse
\* error carrying status 200.
C21_Witness ==
  /\ DecodeFailed
  /\ transport.response.ok
  /\ transport.response.status = 200
  /\ ~result.ok
  /\ ErrorType = Str("parse")
  /\ ErrorField("status") = Num(200)
  /\ ErrorField("details") = ErrorObj("Unexpected token < in JSON")

\* The request in slot r is suspended at one of its awaits.
Suspended(r) == reqs[r].pc \in {"token", "fetch", "parse"}

\* C22: every call to request eventually completes with an envelope,
\* provided each of its suspension points eventually settles: no outcome
\* of token, transport and body leaves it pending or aborts it.
C22_EventuallyEnvelope ==
  \A r \in Slots :
    Suspended(r) ~> (reqs[r].pc = "done" /\ reqs[r].outcome = "returned")

\* C23: the boundary server never sends a 2xx status with an error body:
\* for every failure the products helper returns, a parse failure that
\* recorded status 200 included, the status sent is 400 or above.
C23_ErrorStatusAtLeast400 ==
  (call.op \in ServerOps /\ pc = "done" /\ HasKey(served.body, "error")) =>
    served.status >= 400

\* The handler of slot r has answered the link of a listed product after
\* the CMS answered with the records it selected.
LinkAnswered(r) ==
  /\ routes[r].pc \in {"done", "received"}
  /\ routes[r].call.op = "apiProductBySlug"
  /\ routes[r].body.kind = "value"

\* C24: every product that GET /api/products lists is returned, with
\* status 200, by GET /api/products/<its slug> against the same CMS
\* contents; a listed product never leads to 404.
C24_ListedProductIsFetchable ==
  \A r \in Slots :
    LinkAnswered(r) =>
      /\ routes[r].served.status = 200
      /\ \E i \in 1..Len(cms) :
           LET p == mapProduct(cms[i], baseUrl)
           IN /\ Get(p, "slug") = routes[r].call.slug
              /\ Get(routes[r].served.body, "data") = p

\* A listed product whose record has a slug is fetched through its link.
C24_SluggedProductFetched ==
  \E r \in Slots :
    /\ LinkAnswered(r)
    /\ routes[r].call.slug = Chars(<<"kaffee">>)
    /\ routes[r].served.status = 200
    /\ Get(Get(routes[r].served.body, "data"), "id") = Chars(<<"1">>)

\* The link of a listed product whose record has no slug leads to 404.
C24_FallbackSlugNotFound ==
  \E r \in Slots :
    /\ LinkAnswered(r)
    /\ routes[r].call.slug = Chars(<<"2">>)
    /\ cms = <<Obj([id |-> Num(2), name |-> Str("Tee")])>>
    /\ routes[r].served.status = 404

====
